---- MODULE Spec2Model ----
(***************************************************************************)
(* GenomeGist: the client-side license/session state machine of            *)
(* src/src/main.ts (LicenseSessionClient) and the wire contract of the     *)
(* external License Service.                                               *)
(*                                                                         *)
(* Spec        the browser client: init, key entry, clear, preset change,  *)
(*             extraction, and the completions of the requests in flight.  *)
(* SpecService the License Service's session window bookkeeping.           *)
(***************************************************************************)
EXTENDS Integers, FiniteSets, Sequences, Bags, TLC

VARIABLES
    storedToken,        \* main.ts:179  string | null
    sessionsRemaining,  \* main.ts:180  number | null
    sessionExpiresAt,   \* main.ts:181  Date | null
    hasActiveSession,   \* main.ts:182
    licenseValidated,   \* main.ts:183
    paidSnpList,        \* main.ts:174  decrypted premium catalog | null
    currentPreset,      \* main.ts:178
    currentParseResult, \* main.ts:171
    currentResult,      \* main.ts:172
    snpList,            \* main.ts:173  bundled free catalog | null
    errorText,          \* main.ts:164-165, the message of the visible error panel
    localStorageToken,  \* localStorage[TOKEN_STORAGE_KEY]
    initPc,             \* position of init() (main.ts:187-341)
    inflight,           \* bag of license requests whose fetch has not settled
    decrypting,         \* bag of decryptSnpList calls suspended in crypto.subtle
    now,                \* wall clock, hours
    srvSessionsRemaining,     \* service record: sessionsRemaining
    srvLastSessionStartedAt,  \* service record: lastSessionStartedAt
    srvReply,                 \* the reply of the service's latest call
    currentReader,      \* main.ts:175  FileReader | null, as an index of readers
    readers,            \* the FileReader objects created by handleFile, in order
    parseVariants,      \* parseResult.variants, the rows of the genome file in order
    snpVariants,        \* snpList.variants, the catalog entries in order
    extraction,         \* the latest extractor or output call with its result
    content,            \* the text of the genome file, as its lines
    parsing,            \* the latest parser call with its outcome
    snpListJson,        \* the parsed JSON handed to validateSNPList
    validation,         \* the latest validateSNPList call with its outcome
    outputBytes,        \* new Blob([content]).size of the serialized output
    fileSize,           \* the latest text calculateSize returned
    arrays,             \* the SNPCategory[] objects, in order of creation
    selectedCategories, \* main.ts:177  SNPCategory[], as an index of arrays
    selectedFormat,     \* main.ts:176
    results,            \* the ExtractionResult objects, in order of creation
    replies             \* bag of replies of the License Service on their way back

clientVars == <<storedToken, sessionsRemaining, sessionExpiresAt, hasActiveSession,
                licenseValidated, paidSnpList, currentPreset, currentParseResult,
                currentResult, snpList, errorText, localStorageToken, initPc,
                inflight, decrypting>>

serviceVars == <<srvSessionsRemaining, srvLastSessionStartedAt, srvReply>>

fileVars == <<currentReader, readers>>

extractVars == <<parseVariants, snpVariants, extraction>>

parseVars == <<content, parsing>>

catalogVars == <<snpListJson, validation>>

sizeVars == <<outputBytes, fileSize>>

resultVars == <<arrays, selectedCategories, selectedFormat, results>>

vars == <<clientVars, now, serviceVars, fileVars, extractVars, parseVars, catalogVars,
          sizeVars, resultVars, replies>>

(***************************************************************************)
(* Bounds                                                                  *)
(***************************************************************************)
MaxOutstanding == 2   \* requests in flight plus decryptions pending, together
MaxSessions == 1      \* largest sessionsRemaining a reply carries
MaxNow == 50          \* hours the service clock runs
MaxReaders == 3       \* FileReader objects created
MaxVariants == 2      \* rows in a genome file
MaxCatalog == 3       \* entries in a catalog
MaxSerializedRows == 1  \* rows in a genome file whose result is written out

(***************************************************************************)
(* Values                                                                  *)
(***************************************************************************)
NULL == "null"
NullNum == -1
Keys == {"LICENSE-KEY-A", "LICENSE-KEY-B"}
TokenInputs == Keys \cup {"", "short"}
MIN_TOKEN_LENGTH == 8
SESSION_WINDOW == 24          \* hours
SESSIONS_PER_LICENSE == 3

FreeCatalog == "snp-list-free"
\* The premium catalog as encrypted by the service for the request of key k.
PremiumCatalog(k) == k

CategoryPresets == {"demo", "wellness", "full"}
\* Presets the user picks or localStorage holds; wellness and full differ only
\* in the categories they select.
PresetInputs == {"demo", "full"}
\* Whether the uploaded file parses; the files of this specification do.
ParseOutcomes == {TRUE}
SavedTokens == {NULL, "LICENSE-KEY-A"}
UrlKeys == {NULL, "LICENSE-KEY-A"}
PRESET_REQUIRES_TOKEN == [demo |-> FALSE, wellness |-> TRUE, full |-> TRUE]

NoError == "none"
MsgNetwork == "Network error. Please try again."
MsgExhausted == "This license key has no remaining sessions."
MsgFailedLoad == "Failed to load SNP data. Please try again."
MsgNeedLicense == "Please enter a valid license key for Full Access reports."
MsgNoFile == "No file loaded. Please upload a genome file first."
MsgSnpListLoad == "Failed to load SNP list. Please refresh the page."
MsgParse == "parse error"
MsgExtract == "Failed to extract variants."

\* How a fetch settles: a response with status ok, a response with another
\* status, or a rejection.
Transports == {"ok", "http_error", "throw"}

(***************************************************************************)
(* Requests and replies                                                    *)
(***************************************************************************)
Add(bag, x) == bag (+) SetToBag({x})
Remove(bag, x) == bag (-) SetToBag({x})

\* History kept on the key-entry requests in flight (the program has no such
\* field): `stale` says that the user has since entered a different key.
\* Supersede recomputes it when `token` is entered.
Supersede(bag, token) ==
    LET tag(r) == IF r.origin = "handleTokenValidation"
                  THEN [r EXCEPT !.stale = (r.key # token)] ELSE r
        tagged == { tag(r) : r \in BagToSet(bag) }
    IN [x \in tagged |->
          IF x.origin = "handleTokenValidation"
          THEN CopiesIn([x EXCEPT !.stale = TRUE], bag)
               + CopiesIn([x EXCEPT !.stale = FALSE], bag)
          ELSE CopiesIn(x, bag)]

\* Variant of checkLicense that posts to the consuming endpoint.
checkLicense_Consuming(origin, licenseKey) ==
    [api |-> "validate-token", origin |-> origin, key |-> licenseKey, stale |-> FALSE]

\* fetch(`${API_BASE_URL}/api/check-license`, {licenseKey}) issued by `origin`.
checkLicense(origin, licenseKey) ==
    [api |-> "check-license", origin |-> origin, key |-> licenseKey, stale |-> FALSE]

\* fetch(`${API_BASE_URL}/api/validate-token`, {token: storedToken}).
validateToken(origin, token) ==
    [api |-> "validate-token", origin |-> origin, key |-> token, stale |-> FALSE]

\* Bodies the service may send to check-license.
CheckBodies ==
    { [valid |-> TRUE, sessionsRemaining |-> s, hasActiveSession |-> a,
       sessionExpiresAt |-> IF a THEN now + SESSION_WINDOW ELSE NullNum,
       error |-> "none"] :
        s \in 0..MaxSessions, a \in BOOLEAN }
    \cup
    { [valid |-> FALSE, sessionsRemaining |-> NullNum, hasActiveSession |-> FALSE,
       sessionExpiresAt |-> NullNum, error |-> e] :
        e \in {"invalid_token", "exhausted"} }

NetworkErrorResult ==
    [valid |-> FALSE, sessionsRemaining |-> NullNum, hasActiveSession |-> FALSE,
     sessionExpiresAt |-> NullNum, error |-> "network_error"]

\* What checkLicense resolves to: the body, or network_error when fetch throws
\* or the status is not ok.
CheckLicenseResult(transport, body) ==
    IF transport = "ok" THEN body ELSE NetworkErrorResult

\* What a check-license fetch settles with.
CheckReplies ==
    { [transport |-> "ok", body |-> b] : b \in CheckBodies }
    \cup { [transport |-> t, body |-> NetworkErrorResult] : t \in Transports \ {"ok"} }

\* encryptedSnpList/iv of a validate-token reply: absent, not base64, or base64.
Payloads == {"absent", "bad_base64", "base64"}

\* What the base64 payload turns out to hold once decryptSnpList has run: bytes
\* that fail the GCM tag or JSON.parse, JSON that fails validateSNPList, or the
\* catalog.
Plaintexts == {"corrupt", "bad_schema", "catalog"}

ValidateBodies ==
    { [valid |-> TRUE, sessionsRemaining |-> s,
       sessionExpiresAt |-> now + SESSION_WINDOW,
       encryptedSnpList |-> p, error |-> "none"] :
        s \in 0..MaxSessions, p \in Payloads }
    \cup
    { [valid |-> FALSE, sessionsRemaining |-> NullNum, sessionExpiresAt |-> NullNum,
       encryptedSnpList |-> "absent", error |-> e] :
        e \in {"invalid_token", "exhausted"} }

\* The body of a validate-token fetch that failed in transport: none is read.
NoBody ==
    [valid |-> FALSE, sessionsRemaining |-> NullNum, sessionExpiresAt |-> NullNum,
     encryptedSnpList |-> "absent", error |-> "none"]

\* What a validate-token fetch settles with.
ValidateReplies ==
    { [transport |-> "ok", body |-> b] : b \in ValidateBodies }
    \cup { [transport |-> t, body |-> NoBody] : t \in Transports \ {"ok"} }

\* decryptSnpList: atob() of the payload throws before the first await.
Base64Decodes(payload) == payload # "bad_base64"

\* decryptSnpList after its awaits: AES-GCM under SHA-256(token) authenticates
\* only the ciphertext made for that token; then JSON.parse and validateSNPList.
DecryptSucceeds(d, plaintext) == plaintext = "catalog" /\ d.token = d.encKey

\* trim().length of what the user typed
TokenLength(token) ==
    IF token = "" THEN 0 ELSE IF token = "short" THEN 5 ELSE 13

\* Asynchronous operations that have not settled.
Outstanding == BagCardinality(inflight) + BagCardinality(decrypting)

ListenersRegistered == initPc \in {"loading", "done"}

(***************************************************************************)
(* Client: initial state (main.ts:171-184) and init() (main.ts:187-341)    *)
(***************************************************************************)
ClientInit ==
    /\ storedToken = NULL
    /\ sessionsRemaining = NullNum
    /\ sessionExpiresAt = NullNum
    /\ hasActiveSession = FALSE
    /\ licenseValidated = FALSE
    /\ paidSnpList = NULL
    /\ currentPreset = "demo"
    /\ currentParseResult = NULL
    /\ currentResult = NULL
    /\ snpList = NULL
    /\ errorText = NoError
    /\ localStorageToken \in SavedTokens
    /\ initPc = "start"
    /\ inflight = EmptyBag
    /\ decrypting = EmptyBag

\* main.ts:272-285: the saved preset, demoted to demo when it needs a key and
\* none is stored.
RestoredPreset(savedPreset, token) ==
    IF savedPreset = NULL THEN currentPreset
    ELSE IF PRESET_REQUIRES_TOKEN[savedPreset] /\ token = NULL THEN "demo"
    ELSE savedPreset

\* A valid check-license result stored as the session (main.ts:220-225, 450-455).
StoreValidatedKey(key, result) ==
    /\ storedToken' = key
    /\ sessionsRemaining' = result.sessionsRemaining
    /\ hasActiveSession' = result.hasActiveSession
    /\ sessionExpiresAt' = result.sessionExpiresAt
    /\ licenseValidated' = TRUE
    /\ localStorageToken' = key

\* The session fields a check or fetch reply may leave alone.
SessionUnchanged ==
    UNCHANGED <<storedToken, sessionsRemaining, sessionExpiresAt, hasActiveSession,
                licenseValidated, localStorageToken>>

\* clearToken() (main.ts:504-527).
ClearTokenEffect ==
    /\ storedToken' = NULL
    /\ sessionsRemaining' = NullNum
    /\ sessionExpiresAt' = NullNum
    /\ hasActiveSession' = FALSE
    /\ licenseValidated' = FALSE
    /\ paidSnpList' = NULL
    /\ localStorageToken' = NULL
    /\ currentPreset' = IF PRESET_REQUIRES_TOKEN[currentPreset] THEN "demo"
                        ELSE currentPreset

\* init() up to its first suspension: the URL key's check (main.ts:208-216), or
\* the restore of the saved key with its background check (main.ts:240-262)
\* followed by the preset restore and the start of loadFreeSNPList.
init(urlLicenseKey, savedPreset) ==
    /\ initPc = "start"
    /\ IF urlLicenseKey # NULL
       THEN /\ inflight' = Add(inflight, checkLicense("init_url", urlLicenseKey))
            /\ initPc' = "url_wait"
            /\ UNCHANGED <<storedToken, currentPreset, errorText>>
       ELSE /\ storedToken' = localStorageToken
            /\ inflight' = IF localStorageToken # NULL
                           THEN Add(inflight, checkLicense("init_restore", localStorageToken))
                           ELSE inflight
            /\ currentPreset' = RestoredPreset(savedPreset, localStorageToken)
            /\ errorText' = NoError
            /\ initPc' = "loading"
    /\ UNCHANGED <<sessionsRemaining, sessionExpiresAt, hasActiveSession,
                   licenseValidated, paidSnpList, currentParseResult, currentResult,
                   snpList, localStorageToken, decrypting>>

\* init() resumed with the URL key's result (main.ts:218-237), then the preset
\* restore and the start of loadFreeSNPList (main.ts:265-327).
InitUrlResponse(r, transport, body, savedPreset) ==
    /\ initPc = "url_wait"
    /\ BagIn(r, inflight) /\ r.origin = "init_url"
    /\ inflight' = Remove(inflight, r)
    /\ LET result == CheckLicenseResult(transport, body) IN
         IF result.valid THEN StoreValidatedKey(r.key, result) ELSE SessionUnchanged
    /\ currentPreset' = RestoredPreset(savedPreset, storedToken')
    /\ errorText' = NoError
    /\ initPc' = "loading"
    /\ UNCHANGED <<paidSnpList, currentParseResult, currentResult, snpList, decrypting>>

\* init() resumed with the bundled free catalog, or with its load error
\* (main.ts:325-335).
LoadFreeSNPListDone(loaded) ==
    /\ initPc = "loading"
    /\ initPc' = "done"
    /\ snpList' = IF loaded THEN FreeCatalog ELSE NULL
    /\ errorText' = IF loaded THEN errorText ELSE MsgSnpListLoad
    /\ UNCHANGED <<storedToken, sessionsRemaining, sessionExpiresAt, hasActiveSession,
                   licenseValidated, paidSnpList, currentPreset, currentParseResult,
                   currentResult, localStorageToken, inflight, decrypting>>

(***************************************************************************)
(* Client: key entry, background re-validation, clear, preset              *)
(***************************************************************************)
\* handleTokenValidation() up to its await (main.ts:428-446).
handleTokenValidation(token) ==
    /\ ListenersRegistered
    /\ token # ""
    /\ TokenLength(token) >= MIN_TOKEN_LENGTH
    /\ Outstanding < MaxOutstanding
    /\ inflight' = Add(Supersede(inflight, token),
                       checkLicense("handleTokenValidation", token))
    /\ UNCHANGED <<storedToken, sessionsRemaining, sessionExpiresAt, hasActiveSession,
                   licenseValidated, paidSnpList, currentPreset, currentParseResult,
                   currentResult, snpList, errorText, localStorageToken, initPc,
                   decrypting>>

\* handleTokenValidation() resumed with the result (main.ts:448-493).
TokenValidationResponse(r, transport, body) ==
    /\ BagIn(r, inflight) /\ r.origin = "handleTokenValidation"
    /\ inflight' = Remove(inflight, r)
    /\ LET result == CheckLicenseResult(transport, body) IN
         IF result.valid THEN StoreValidatedKey(r.key, result) ELSE SessionUnchanged
    /\ UNCHANGED <<paidSnpList, currentPreset, currentParseResult, currentResult,
                   snpList, errorText, initPc, decrypting>>

\* Variant of TokenChangedDuringValidation without the comparison of line 247.
TokenChangedDuringValidation_Never(tokenBeingValidated) ==
    FALSE

\* main.ts:247: the background check's response is for a key that is no longer
\* the stored one.
TokenChangedDuringValidation(tokenBeingValidated) ==
    storedToken # tokenBeingValidated

\* main.ts:249-258: the background check's result applied to the stored key.
\* Variant of ApplyBackgroundResult for a check that delivers no result
\* unless the key is valid.
ApplyBackgroundResult_OnlyValid(result) ==
    IF result.valid
    THEN /\ sessionsRemaining' = result.sessionsRemaining
         /\ hasActiveSession' = result.hasActiveSession
         /\ sessionExpiresAt' = result.sessionExpiresAt
         /\ licenseValidated' = TRUE
         /\ UNCHANGED <<storedToken, paidSnpList, localStorageToken, currentPreset>>
    ELSE SessionUnchanged /\ UNCHANGED <<paidSnpList, currentPreset>>

ApplyBackgroundResult(result) ==
    IF result.valid
    THEN /\ sessionsRemaining' = result.sessionsRemaining
         /\ hasActiveSession' = result.hasActiveSession
         /\ sessionExpiresAt' = result.sessionExpiresAt
         /\ licenseValidated' = TRUE
         /\ UNCHANGED <<storedToken, paidSnpList, localStorageToken, currentPreset>>
    ELSE ClearTokenEffect

\* The .then() of the background check started by init (main.ts:245-259).
BackgroundCheckResponse(r, transport, body) ==
    /\ BagIn(r, inflight) /\ r.origin = "init_restore"
    /\ inflight' = Remove(inflight, r)
    /\ IF TokenChangedDuringValidation(r.key)
       THEN SessionUnchanged /\ UNCHANGED <<paidSnpList, currentPreset>>
       ELSE ApplyBackgroundResult(CheckLicenseResult(transport, body))
    /\ UNCHANGED <<currentParseResult, currentResult, snpList, errorText, initPc,
                   decrypting>>

\* Click on the clear button (main.ts:316, 504-527).
clearToken ==
    /\ ListenersRegistered
    /\ ClearTokenEffect
    /\ UNCHANGED <<currentParseResult, currentResult, snpList, errorText, initPc,
                   inflight, decrypting>>

\* handlePresetChange(preset) (main.ts:344-367).
handlePresetChange(preset) ==
    /\ ListenersRegistered
    /\ currentPreset' = preset
    /\ UNCHANGED <<storedToken, sessionsRemaining, sessionExpiresAt, hasActiveSession,
                   licenseValidated, paidSnpList, currentParseResult, currentResult,
                   snpList, errorText, localStorageToken, initPc, inflight,
                   decrypting>>

(***************************************************************************)
(* Client: file preview                                                    *)
(***************************************************************************)
\* parseAndShowPreview(content) with showPreview (main.ts:797-824, 656-672).
parseAndShowPreview(parses) ==
    /\ snpList # NULL
    /\ IF parses
       THEN currentParseResult' = "parsed" /\ errorText' = NoError
       ELSE errorText' = MsgParse /\ UNCHANGED currentParseResult
    /\ UNCHANGED <<storedToken, sessionsRemaining, sessionExpiresAt, hasActiveSession,
                   licenseValidated, paidSnpList, currentPreset, currentResult,
                   snpList, localStorageToken, initPc, inflight, decrypting>>

\* resetToUpload() (main.ts:729-738).
resetToUpload ==
    /\ currentParseResult' = NULL
    /\ currentResult' = NULL
    /\ errorText' = NoError
    /\ UNCHANGED <<storedToken, sessionsRemaining, sessionExpiresAt, hasActiveSession,
                   licenseValidated, paidSnpList, currentPreset, snpList,
                   localStorageToken, initPc, inflight, decrypting>>

(***************************************************************************)
(* Client: extraction and the consuming fetch                              *)
(***************************************************************************)
\* main.ts:888: the premium catalog has to be fetched.
NeedsFetch == paidSnpList = NULL

\* main.ts:900: the catalog an extraction runs against.
ListToUse(paid) ==
    IF PRESET_REQUIRES_TOKEN[currentPreset] /\ paid # NULL THEN paid ELSE snpList

\* extractVariants(currentParseResult, listToUse, ...) and showResults
\* (main.ts:896-915); a null parse result makes extractVariants throw.
ExtractAndShow(paid) ==
    IF currentParseResult = NULL
    THEN errorText' = MsgExtract /\ UNCHANGED currentResult
    ELSE currentResult' = ListToUse(paid) /\ errorText' = NoError

\* fetchPaidSnpList() up to its await (main.ts:827-839).
fetchPaidSnpList(origin) ==
    /\ storedToken # NULL
    /\ Outstanding < MaxOutstanding
    /\ inflight' = Add(inflight, validateToken(origin, storedToken))
    /\ errorText' = NoError
    /\ UNCHANGED currentResult

\* Variant of performExtraction without the license test of lines 881-885.
performExtraction_Ungated ==
    /\ IF currentParseResult = NULL \/ snpList = NULL
       THEN errorText' = MsgNoFile /\ UNCHANGED <<inflight, currentResult>>
       ELSE IF PRESET_REQUIRES_TOKEN[currentPreset] /\ NeedsFetch /\ storedToken # NULL
       THEN fetchPaidSnpList("performExtraction")
       ELSE ExtractAndShow(paidSnpList) /\ UNCHANGED inflight
    /\ UNCHANGED <<storedToken, sessionsRemaining, sessionExpiresAt, hasActiveSession,
                   licenseValidated, paidSnpList, currentPreset, currentParseResult,
                   snpList, localStorageToken, initPc, decrypting>>

\* performExtraction() up to its await or its end (main.ts:874-916).
performExtraction ==
    /\ IF currentParseResult = NULL \/ snpList = NULL
       THEN errorText' = MsgNoFile /\ UNCHANGED <<inflight, currentResult>>
       ELSE IF PRESET_REQUIRES_TOKEN[currentPreset]
                 /\ (storedToken = NULL \/ ~licenseValidated)
       THEN errorText' = MsgNeedLicense /\ UNCHANGED <<inflight, currentResult>>
       ELSE IF PRESET_REQUIRES_TOKEN[currentPreset] /\ NeedsFetch
       THEN fetchPaidSnpList("performExtraction")
       ELSE ExtractAndShow(paidSnpList) /\ UNCHANGED inflight
    /\ UNCHANGED <<storedToken, sessionsRemaining, sessionExpiresAt, hasActiveSession,
                   licenseValidated, paidSnpList, currentPreset, currentParseResult,
                   snpList, localStorageToken, initPc, decrypting>>

\* Variant of FetchTransportFailure that treats the failure as an invalid key.
FetchTransportFailure_Clears ==
    /\ errorText' = MsgNetwork
    /\ ClearTokenEffect
    /\ UNCHANGED decrypting

\* main.ts:841-845 and 866-870: the fetch threw or the status is not ok.
FetchTransportFailure ==
    /\ errorText' = MsgNetwork
    /\ SessionUnchanged
    /\ UNCHANGED <<paidSnpList, currentPreset, decrypting>>

\* main.ts:859-865: the reply is not a valid one with a payload.
FetchLicenseError(data) ==
    /\ errorText' = IF data.error = "exhausted" THEN MsgExhausted ELSE MsgFailedLoad
    /\ SessionUnchanged
    /\ UNCHANGED <<paidSnpList, currentPreset, decrypting>>

\* main.ts:866-870 reached from decryptSnpList: the catch of fetchPaidSnpList.
FetchDecryptFailure == errorText' = MsgNetwork

\* main.ts:849-856: the session update, then the call of decryptSnpList with
\* the token stored at that moment.
FetchValidReply(r, data) ==
    /\ sessionsRemaining' = data.sessionsRemaining
    /\ sessionExpiresAt' = data.sessionExpiresAt
    /\ hasActiveSession' = TRUE
    /\ IF Base64Decodes(data.encryptedSnpList)
       THEN /\ decrypting' = Add(decrypting, [encKey |-> r.key, token |-> storedToken])
            /\ UNCHANGED errorText
       ELSE FetchDecryptFailure /\ UNCHANGED decrypting
    /\ UNCHANGED <<storedToken, licenseValidated, paidSnpList, localStorageToken,
                   currentPreset>>

\* fetchPaidSnpList() resumed with the reply (main.ts:841-870).
FetchResponse(r, transport, data) ==
    /\ BagIn(r, inflight) /\ r.api = "validate-token"
    /\ inflight' = Remove(inflight, r)
    /\ IF transport # "ok" THEN FetchTransportFailure
       ELSE IF data.valid /\ data.encryptedSnpList # "absent"
       THEN FetchValidReply(r, data)
       ELSE FetchLicenseError(data)
    /\ UNCHANGED <<currentParseResult, currentResult, snpList, initPc>>

\* decryptSnpList settles (main.ts:856-858 or the catch at 866-870); on success
\* performExtraction resumes (main.ts:890-915).
DecryptDone(d, plaintext) ==
    /\ BagIn(d, decrypting)
    /\ decrypting' = Remove(decrypting, d)
    /\ IF DecryptSucceeds(d, plaintext)
       THEN /\ paidSnpList' = PremiumCatalog(d.encKey)
            /\ ExtractAndShow(paidSnpList')
       ELSE FetchDecryptFailure /\ UNCHANGED <<paidSnpList, currentResult>>
    /\ UNCHANGED <<storedToken, sessionsRemaining, sessionExpiresAt, hasActiveSession,
                   licenseValidated, currentPreset, currentParseResult, snpList,
                   localStorageToken, initPc, inflight>>

(***************************************************************************)
(* The License Service before any call                                     *)
(***************************************************************************)
NoReply ==
    [api |-> "none", valid |-> FALSE, sessionsRemaining |-> NullNum,
     hasActiveSession |-> FALSE, sessionExpiresAt |-> NullNum,
     encryptedSnpList |-> "absent", error |-> "none", at |-> 0]

ServiceIdle ==
    /\ now = 0
    /\ srvSessionsRemaining = 0
    /\ srvLastSessionStartedAt = NullNum
    /\ srvReply = NoReply

(***************************************************************************)
(* Extractor (src/unnamed/part_004:145-275) and output generator           *)
(* (src/output/yaml.ts:83-197)                                             *)
(***************************************************************************)
\* String.prototype.toLowerCase on the rsids of the model.
toLowerCase_Identity(s) == s

toLowerCase(s) ==
    CASE s = "RS1" -> "rs1"
      [] s = "RS2" -> "rs2"
      [] s = "RS3" -> "rs3"
      [] s = "rsAb7" -> "rsab7"
      [] s = "I5" -> "i5"
      [] s = "RSID" -> "rsid"
      [] OTHER -> s

GenomeRsids == {"rs1", "RS1", "rs2"}
Genotypes == {"CT", "--"}
\* GenomeVariant (part_007:27-32), rsid and genotype.
GenomeVariants == [rsid : GenomeRsids, genotype : Genotypes]

\* The category list (part_007:17), of which the wellness preset names some.
ALL_CATEGORIES == {"methylation", "vitamins_minerals", "food_sensitivities"}

\* SNPEntry values of a validated catalog: their category is in ALL_CATEGORIES.
SnpEntries ==
    { [rsid |-> "rs1", gene |-> "MTHFR", category |-> "methylation"],
      [rsid |-> "RS2", gene |-> "VDR", category |-> "vitamins_minerals"],
      [rsid |-> "rs3", gene |-> "COMT", category |-> "methylation"] }

SeqsUpTo(S, n) == UNION { [1..k -> S] : k \in 0..n }

Injective(seq) == \A i, j \in DOMAIN seq : seq[i] = seq[j] => i = j

\* categoryFilter?: SNPCategory[]; an array is used through includes() only.
Undefined == [given |-> FALSE, categories |-> {}]
CategoryFilters ==
    {Undefined} \cup { [given |-> TRUE, categories |-> c] : c \in SUBSET ALL_CATEGORIES }

\* Map.prototype.set: a later set of the same key replaces the value.
MapSet_KeepFirst(lookup, key, value) ==
    IF key \in DOMAIN lookup THEN lookup
    ELSE [k \in DOMAIN lookup \cup {key} |-> IF k = key THEN value ELSE lookup[k]]

MapSet(lookup, key, value) ==
    [k \in DOMAIN lookup \cup {key} |-> IF k = key THEN value ELSE lookup[k]]

EmptyMap == [k \in {} |-> k]

RECURSIVE createGenomeLookup(_)
createGenomeLookup(variants) ==
    IF variants = << >> THEN EmptyMap
    ELSE LET n == Len(variants)
             variant == variants[n]
         IN  MapSet(createGenomeLookup(SubSeq(variants, 1, n - 1)),
                    toLowerCase(variant.rsid), variant)

\* The optional genomeLookup argument, which the callers (main.ts:681, 903)
\* leave out.
LookupOf(variants, genomeLookup) ==
    IF genomeLookup.given THEN genomeLookup.map ELSE createGenomeLookup(variants)

filteredVariants_Excluding(variants, categoryFilter) ==
    IF categoryFilter.given
    THEN SelectSeq(variants, LAMBDA v : v.category \notin categoryFilter.categories)
    ELSE variants

filteredVariants(variants, categoryFilter) ==
    IF categoryFilter.given
    THEN SelectSeq(variants, LAMBDA v : v.category \in categoryFilter.categories)
    ELSE variants

isNoCall_Never(genomeVariant) == FALSE

isNoCall(genomeVariant) == genomeVariant.genotype = "--"

MatchedVariant(snpEntry, genomeVariant) ==
    [rsid |-> snpEntry.rsid, gene |-> snpEntry.gene,
     genotype |-> genomeVariant.genotype, category |-> snpEntry.category,
     status |-> IF isNoCall(genomeVariant) THEN "no-call" ELSE "found"]

MissingVariant(snpEntry) ==
    [rsid |-> snpEntry.rsid, gene |-> snpEntry.gene,
     category |-> snpEntry.category, reason |-> "not-in-file"]

push_Front(list, item) == <<item>> \o list

push(list, item) == Append(list, item)

NoCounts == [matched |-> << >>, missing |-> << >>, foundCount |-> 0, noCallCount |-> 0]

\* The loop of extractVariants over the first n filtered entries.
RECURSIVE MatchLoop(_, _, _)
MatchLoop(filtered, lookup, n) ==
    IF n = 0 THEN NoCounts
    ELSE LET acc == MatchLoop(filtered, lookup, n - 1)
             snpEntry == filtered[n]
             rsidLower == toLowerCase(snpEntry.rsid)
         IN  IF rsidLower \in DOMAIN lookup
             THEN LET genomeVariant == lookup[rsidLower]
                  IN  [acc EXCEPT
                         !.matched = push(@, MatchedVariant(snpEntry, genomeVariant)),
                         !.foundCount = IF isNoCall(genomeVariant) THEN @ ELSE @ + 1,
                         !.noCallCount = IF isNoCall(genomeVariant) THEN @ + 1 ELSE @]
             ELSE [acc EXCEPT !.missing = push(@, MissingVariant(snpEntry))]

\* Variant of summary whose total is the number of rows of the genome file.
summary_TotalInFile(acc, filtered) ==
    [found |-> acc.foundCount, noCall |-> acc.noCallCount,
     missing |-> Len(acc.missing), total |-> Len(parseVariants)]

summary_TotalMatched(acc, filtered) ==
    [found |-> acc.foundCount, noCall |-> acc.noCallCount,
     missing |-> Len(acc.missing), total |-> Len(acc.matched)]

summary(acc, filtered) ==
    [found |-> acc.foundCount, noCall |-> acc.noCallCount,
     missing |-> Len(acc.missing), total |-> Len(filtered)]

extractVariants(variants, snpEntries, categoryFilter, genomeLookup) ==
    LET lookup == LookupOf(variants, genomeLookup)
        filtered == filteredVariants(snpEntries, categoryFilter)
        acc == MatchLoop(filtered, lookup, Len(filtered))
    IN  [metadata |-> [date |-> now, sourceVariantCount |-> Len(variants),
                       categoriesIncluded |-> categoryFilter],
         variants |-> acc.matched, missing |-> acc.missing,
         summary |-> summary(acc, filtered)]

\* byCategory of estimateMatches after the first n catalog entries.
RECURSIVE EstimateLoop(_, _, _, _)
EstimateLoop(snpEntries, categories, lookup, n) ==
    IF n = 0 THEN [cat \in ALL_CATEGORIES |-> 0]
    ELSE LET byCategory == EstimateLoop(snpEntries, categories, lookup, n - 1)
             snpEntry == snpEntries[n]
         IN  IF snpEntry.category \notin categories THEN byCategory
             ELSE IF toLowerCase(snpEntry.rsid) \in DOMAIN lookup
             THEN [byCategory EXCEPT ![snpEntry.category] = @ + 1]
             ELSE byCategory

RECURSIVE SumOver(_, _)
SumOver(f, keys) ==
    IF keys = {} THEN 0
    ELSE LET k == CHOOSE x \in keys : TRUE IN f[k] + SumOver(f, keys \ {k})

\* Variant of estimateMatches that takes an empty filter for no filter.
estimateMatches_EmptyMeansAll(variants, snpEntries, categoryFilter, genomeLookup) ==
    LET lookup == LookupOf(variants, genomeLookup)
        categories == IF categoryFilter.given /\ categoryFilter.categories # {}
                      THEN categoryFilter.categories
                      ELSE ALL_CATEGORIES
        byCategory == EstimateLoop(snpEntries, categories, lookup, Len(snpEntries))
    IN  [total |-> SumOver(byCategory, DOMAIN byCategory), byCategory |-> byCategory]

estimateMatches(variants, snpEntries, categoryFilter, genomeLookup) ==
    LET lookup == LookupOf(variants, genomeLookup)
        categories == IF categoryFilter.given THEN categoryFilter.categories
                      ELSE ALL_CATEGORIES
        byCategory == EstimateLoop(snpEntries, categories, lookup, Len(snpEntries))
    IN  [total |-> SumOver(byCategory, DOMAIN byCategory), byCategory |-> byCategory]

OutputFormats == {"detailed", "compact", "minimal"}
Omitted == "(omitted)"

\* String.prototype.length of the strings the outputs are made of.
Chars(s) ==
    CASE s = "rs1" -> 3
      [] s = "RS2" -> 3
      [] s = "rs3" -> 3
      [] s = "MTHFR" -> 5
      [] s = "VDR" -> 3
      [] s = "COMT" -> 4
      [] s = "CT" -> 2
      [] s = "--" -> 2
      [] s = "methylation" -> 11
      [] s = "vitamins_minerals" -> 17
      [] s = "food_sensitivities" -> 18
      [] s = "no-call" -> 7
      [] s = "not-in-file" -> 11
      [] s = "GenomeGist" -> 10
      [] s = "1.0.0" -> 5
      [] s = "ancestry" -> 8
      [] s = "2025.01" -> 7
      [] s = "metadata" -> 8
      [] s = "tool" -> 4
      [] s = "version" -> 7
      [] s = "extraction_date" -> 15
      [] s = "source_format" -> 13
      [] s = "source_variant_count" -> 20
      [] s = "snp_list_version" -> 16
      [] s = "categories_included" -> 19
      [] s = "disclaimer" -> 10
      [] s = "summary" -> 7
      [] s = "variants_found" -> 14
      [] s = "variants_no_call" -> 16
      [] s = "variants_missing" -> 16
      [] s = "total_in_snp_list" -> 17
      [] s = "variants" -> 8
      [] s = "missing_variants" -> 16
      [] s = "rsid" -> 4
      [] s = "gene" -> 4
      [] s = "genotype" -> 8
      [] s = "category" -> 8
      [] s = "status" -> 6
      [] s = "annotation" -> 10
      [] s = "reason" -> 6
      [] s = "date" -> 4
      [] s = "format" -> 6
      [] s = "missing" -> 7
      [] s = "# rsid,gene,genotype" -> 20
      [] s = "# missing: " -> 11

Digits(n) == IF n < 10 THEN 1 ELSE 2

TOOL_NAME == "GenomeGist"
VERSION == "1.0.0"
SourceFormat == "ancestry"
SnpListVersion == "2025.01"
\* Lengths of DISCLAIMER, of COMPACT_DISCLAIMER, of an ISO timestamp and of
\* its first ten characters; an annotation is at least the empty string.
DISCLAIMER_Chars == 430
COMPACT_DISCLAIMER_Chars == 54
IsoDateChars == 24
DateOnlyChars == 10
AnnotationChars == 0
HoursPerDay == 24

\* formatDateOnly: the day of a timestamp, the clock counting hours.
\* result.metadata.date, read by each of the formats.
metadataDate_Now(result) == now

metadataDate(result) == result.metadata.date

formatDateOnly(isoDate) == isoDate \div HoursPerDay

\* yaml.dump in block style: "key: value", "key:" and "- value" lines, each
\* ended by a newline; quoting of a scalar only adds characters.
KeyLine(indent, key, valueChars) == indent + Chars(key) + 2 + valueChars + 1
OpenLine(indent, key) == indent + Chars(key) + 2
ItemLine(indent, valueChars) == indent + 2 + valueChars + 1
EmptyList(indent, key) == KeyLine(indent, key, 2)

RECURSIVE SumSeq(_)
SumSeq(seq) == IF seq = << >> THEN 0 ELSE Head(seq) + SumSeq(Tail(seq))

\* Array.prototype.map, written out for each list.
DetailedVariant(v) ==
    [rsid |-> v.rsid, gene |-> v.gene, genotype |-> v.genotype,
     category |-> v.category,
     status |-> IF v.status = "no-call" THEN "no-call" ELSE Omitted]

CompactVariant(v) ==
    [rsid |-> v.rsid, gene |-> v.gene, genotype |-> v.genotype,
     category |-> Omitted, status |-> Omitted]

DetailedVariantChars(v) ==
    KeyLine(4, "rsid", Chars(v.rsid)) + KeyLine(4, "gene", Chars(v.gene))
    + KeyLine(4, "genotype", Chars(v.genotype)) + KeyLine(4, "category", Chars(v.category))
    + KeyLine(4, "annotation", AnnotationChars)
    + (IF v.status = "no-call" THEN KeyLine(4, "status", Chars("no-call")) ELSE 0)

DetailedMissingChars(v) ==
    KeyLine(4, "rsid", Chars(v.rsid)) + KeyLine(4, "gene", Chars(v.gene))
    + KeyLine(4, "category", Chars(v.category)) + KeyLine(4, "reason", Chars(v.reason))

CompactVariantChars(v) ==
    KeyLine(4, "rsid", Chars(v.rsid)) + KeyLine(4, "gene", Chars(v.gene))
    + KeyLine(4, "genotype", Chars(v.genotype))

\* `${v.rsid},${v.gene},${v.genotype}` and the newline that joins the lines.
MinimalRowChars(v) == Chars(v.rsid) + 1 + Chars(v.gene) + 1 + Chars(v.genotype) + 1

CategoriesIncludedChars(categoryFilter) ==
    IF ~categoryFilter.given THEN 0
    ELSE IF categoryFilter.categories = {} THEN EmptyList(2, "categories_included")
    ELSE OpenLine(2, "categories_included")
         + SumOver([c \in categoryFilter.categories |-> ItemLine(4, Chars(c))],
                   categoryFilter.categories)

ListChars(indent, key, itemChars) ==
    IF itemChars = << >> THEN EmptyList(indent, key)
    ELSE OpenLine(indent, key) + SumSeq(itemChars)

\* The missing section, left out of the output when nothing is missing.
MissingSection_Always(result, key) == {key}

MissingSection(result, key) == IF Len(result.missing) > 0 THEN {key} ELSE {}

toDetailedYAML(result) ==
    [date |-> metadataDate(result),
     sections |-> {"metadata", "summary", "variants"}
                  \cup MissingSection(result, "missing_variants"),
     variants |-> [k \in DOMAIN result.variants |-> DetailedVariant(result.variants[k])],
     missing |-> [k \in DOMAIN result.missing |->
                    [rsid |-> result.missing[k].rsid, gene |-> result.missing[k].gene,
                     category |-> result.missing[k].category,
                     reason |-> result.missing[k].reason]],
     chars |->
        OpenLine(0, "metadata")
        + KeyLine(2, "tool", Chars(TOOL_NAME)) + KeyLine(2, "version", Chars(VERSION))
        + KeyLine(2, "extraction_date", IsoDateChars)
        + KeyLine(2, "source_format", Chars(SourceFormat))
        + KeyLine(2, "source_variant_count", Digits(result.metadata.sourceVariantCount))
        + KeyLine(2, "snp_list_version", Chars(SnpListVersion))
        + CategoriesIncludedChars(result.metadata.categoriesIncluded)
        + KeyLine(2, "disclaimer", DISCLAIMER_Chars)
        + OpenLine(0, "summary")
        + KeyLine(2, "variants_found", Digits(result.summary.found))
        + KeyLine(2, "variants_no_call", Digits(result.summary.noCall))
        + KeyLine(2, "variants_missing", Digits(result.summary.missing))
        + KeyLine(2, "total_in_snp_list", Digits(result.summary.total))
        + ListChars(0, "variants",
                    [k \in DOMAIN result.variants |-> DetailedVariantChars(result.variants[k])])
        + (IF Len(result.missing) > 0
           THEN ListChars(0, "missing_variants",
                          [k \in DOMAIN result.missing |->
                              DetailedMissingChars(result.missing[k])])
           ELSE 0)]

toCompactYAML(result) ==
    [date |-> formatDateOnly(metadataDate(result)),
     sections |-> {"metadata", "variants"} \cup MissingSection(result, "missing"),
     variants |-> [k \in DOMAIN result.variants |-> CompactVariant(result.variants[k])],
     missing |-> [k \in DOMAIN result.missing |-> result.missing[k].rsid],
     chars |->
        OpenLine(0, "metadata")
        + KeyLine(2, "tool", Chars(TOOL_NAME)) + KeyLine(2, "version", Chars(VERSION))
        + KeyLine(2, "date", DateOnlyChars)
        + KeyLine(2, "format", Chars(SourceFormat))
        + KeyLine(2, "disclaimer", COMPACT_DISCLAIMER_Chars)
        + ListChars(0, "variants",
                    [k \in DOMAIN result.variants |-> CompactVariantChars(result.variants[k])])
        + (IF Len(result.missing) > 0
           THEN ListChars(0, "missing",
                          [k \in DOMAIN result.missing |->
                              ItemLine(2, Chars(result.missing[k].rsid))])
           ELSE 0)]

toMinimalCSV_AsDetailed(result) == toDetailedYAML(result)

\* Two comment lines, one line per variant, then one comment line that joins
\* the missing rsids with commas; the lines are joined and ended by newlines.
toMinimalCSV(result) ==
    [date |-> formatDateOnly(metadataDate(result)),
     sections |-> {"header", "variants"} \cup MissingSection(result, "# missing: "),
     variants |-> [k \in DOMAIN result.variants |-> CompactVariant(result.variants[k])],
     missing |-> [k \in DOMAIN result.missing |-> result.missing[k].rsid],
     chars |->
        (2 + Chars(TOOL_NAME) + 2 + Chars(VERSION) + 3 + DateOnlyChars + 3
           + COMPACT_DISCLAIMER_Chars + 1)
        + (Chars("# rsid,gene,genotype") + 1)
        + SumSeq([k \in DOMAIN result.variants |-> MinimalRowChars(result.variants[k])])
        + (IF Len(result.missing) > 0
           THEN Chars("# missing: ")
                + SumSeq([k \in DOMAIN result.missing |-> Chars(result.missing[k].rsid)])
                + (Len(result.missing) - 1) + 1
           ELSE 0)]

toYAML(result, format) ==
    CASE format = "detailed" -> toDetailedYAML(result)
      [] format = "compact" -> toCompactYAML(result)
      [] format = "minimal" -> toMinimalCSV(result)

NoResult == [metadata |-> [date |-> NullNum, sourceVariantCount |-> 0,
                          categoriesIncluded |-> Undefined],
             variants |-> << >>, missing |-> << >>,
             summary |-> [found |-> 0, noCall |-> 0, missing |-> 0, total |-> 0]]
NoEstimate == [total |-> 0, byCategory |-> [cat \in ALL_CATEGORIES |-> 0]]
NoOutput == [date |-> NullNum, sections |-> {}, variants |-> << >>,
             missing |-> << >>, chars |-> 0]

\* The three numbers of the extraction preview and what they show.
NoPreview == [shown |-> "none", matched |-> 0, noCall |-> 0, missing |-> 0]

\* indexBuilt: the call built the lookup from the variant list.
NoCall == [op |-> "none", categoryFilter |-> Undefined, result |-> NoResult,
           estimate |-> NoEstimate, format |-> "none", output |-> NoOutput,
           indexBuilt |-> FALSE, preview |-> NoPreview]

\* genomeLookup ?? createGenomeLookup(parseResult.variants): the lookup is
\* built by the call when none is passed in.
BuildsIndex(genomeLookup) == ~genomeLookup.given

\* No genome file and no catalog are given to the extractor.
NoExtraction ==
    /\ parseVariants = << >>
    /\ snpVariants = << >>
    /\ extraction = NoCall

\* A call of extractVariants on the parsed file and the catalog.
CallExtractVariants(categoryFilter, genomeLookup) ==
    /\ extraction' = [NoCall EXCEPT
                        !.op = "extractVariants",
                        !.categoryFilter = categoryFilter,
                        !.result = extractVariants(parseVariants, snpVariants,
                                                   categoryFilter, genomeLookup),
                        !.indexBuilt = BuildsIndex(genomeLookup)]
    /\ UNCHANGED <<parseVariants, snpVariants>>

\* A call of estimateMatches on the parsed file and the catalog.
CallEstimateMatches(categoryFilter, genomeLookup) ==
    /\ extraction' = [NoCall EXCEPT
                        !.op = "estimateMatches",
                        !.categoryFilter = categoryFilter,
                        !.estimate = estimateMatches(parseVariants, snpVariants,
                                                     categoryFilter, genomeLookup),
                        !.indexBuilt = BuildsIndex(genomeLookup)]
    /\ UNCHANGED <<parseVariants, snpVariants>>

\* The extraction result is written out in one of the formats.
CallToYAML(format) ==
    /\ extraction.op \in {"extractVariants", "toYAML"}
    /\ extraction' = [extraction EXCEPT
                        !.op = "toYAML",
                        !.format = format,
                        !.output = toYAML(extraction.result, format)]
    /\ UNCHANGED <<parseVariants, snpVariants>>

(***************************************************************************)
(* Format detection (src/parser/detector.ts:10-73) and the AncestryDNA     *)
(* parser (src/parser/detector.ts:206-391)                                 *)
(***************************************************************************)
\* A line of the file is the sequence of its tab-separated fields.
\* String.prototype.toUpperCase and trim on the fields of the model.
toUpperCase(s) ==
    CASE s = "y" -> "Y"
      [] s = "mt" -> "MT"
      [] s = "m" -> "M"
      [] s = "c" -> "C"
      [] s = "chrX" -> "CHRX"
      [] OTHER -> s

trim(s) ==
    CASE s = "G " -> "G"
      [] s = "  " -> ""
      [] OTHER -> s

\* String.prototype.startsWith, case-sensitive.
startsWith(s, prefix) ==
    CASE prefix = "rs" -> s \in {"rs1", "rs2", "rs3", "rsAb7", "rsab7", "rsid",
                                 "rsid9"}
      [] prefix = "i" -> s \in {"i5"}
      [] prefix = "rsid" -> s \in {"rsid", "rsid9"}
      [] prefix = "#" -> s \in {"#AncestryDNA raw data download", "# 23andMe",
                                "# rsid", "#pad1990", "#pad2000"}

\* parseInt(s, 10): the leading decimal digits, NaN when there are none.
NaN == [nan |-> TRUE, value |-> 0]
parseInt(s) ==
    CASE s = "100" -> [nan |-> FALSE, value |-> 100]
      [] s = "0" -> [nan |-> FALSE, value |-> 0]
      [] s = "-5" -> [nan |-> FALSE, value |-> -5]
      [] s = "12abc" -> [nan |-> FALSE, value |-> 12]
      [] OTHER -> NaN

\* /^[1-9]$|^1[0-9]$|^2[0-2]$/
Autosomes ==
    {"1", "2", "3", "4", "5", "6", "7", "8", "9", "10", "11", "12", "13", "14",
     "15", "16", "17", "18", "19", "20", "21", "22"}

isValidChromosome(chr) ==
    \/ chr \in Autosomes
    \/ chr = "23" \/ chr = "24"
    \/ chr = "25" \/ chr = "26"
    \/ toUpperCase(chr) \in {"X", "Y", "MT", "M"}

normalizeChromosome_Verbatim(chr) == chr

normalizeChromosome(chr) ==
    CASE chr = "23" -> "X"
      [] chr = "24" -> "Y"
      [] chr \in {"25", "26"} -> "MT"
      [] OTHER -> LET upper == toUpperCase(chr)
                  IN  IF upper = "M" THEN "MT" ELSE upper

\* A string in place of null.
Null == "null"

IsNoCallAllele_ZeroOnly(a) == a = "0"

IsNoCallAllele(a) == a = "0" \/ a = "-"

\* The concatenation a1 + a2 of two one-letter alleles.
Concat(a1, a2) ==
    CASE a1 = "A" /\ a2 = "A" -> "AA"
      [] a1 = "A" /\ a2 = "C" -> "AC"
      [] a1 = "A" /\ a2 = "G" -> "AG"
      [] a1 = "A" /\ a2 = "T" -> "AT"
      [] a1 = "C" /\ a2 = "A" -> "CA"
      [] a1 = "C" /\ a2 = "C" -> "CC"
      [] a1 = "C" /\ a2 = "G" -> "CG"
      [] a1 = "C" /\ a2 = "T" -> "CT"
      [] a1 = "G" /\ a2 = "A" -> "GA"
      [] a1 = "G" /\ a2 = "C" -> "GC"
      [] a1 = "G" /\ a2 = "G" -> "GG"
      [] a1 = "G" /\ a2 = "T" -> "GT"
      [] a1 = "T" /\ a2 = "A" -> "TA"
      [] a1 = "T" /\ a2 = "C" -> "TC"
      [] a1 = "T" /\ a2 = "G" -> "TG"
      [] a1 = "T" /\ a2 = "T" -> "TT"
      [] a1 = "D" /\ a2 = "D" -> "DD"
      [] a1 = "D" /\ a2 = "I" -> "DI"
      [] a1 = "I" /\ a2 = "D" -> "ID"
      [] a1 = "I" /\ a2 = "I" -> "II"

combineAlleles(allele1, allele2) ==
    LET a1 == toUpperCase(trim(allele1))
        a2 == toUpperCase(trim(allele2))
    IN  IF IsNoCallAllele(a1) \/ IsNoCallAllele(a2) THEN "--"
        ELSE IF a1 \notin {"A", "C", "G", "T"} \/ a2 \notin {"A", "C", "G", "T"}
             THEN IF a1 \in {"D", "I"} /\ a2 \in {"D", "I"} THEN Concat(a1, a2)
                  ELSE Null
             ELSE Concat(a1, a2)

NoVariant == [emitted |-> FALSE, rsid |-> Null, chromosome |-> Null,
              position |-> 0, genotype |-> Null]

RsidAccepted(rsid) == startsWith(rsid, "rs") \/ startsWith(rsid, "i")

emittedRsid_Verbatim(rsid) == rsid

emittedRsid(rsid) == toLowerCase(rsid)

\* parseDataLine on the fields of a trimmed line.
parseDataLine(parts) ==
    IF Len(parts) < 5 THEN NoVariant
    ELSE LET rsid == parts[1]
             chromosome == parts[2]
             position == parseInt(parts[3])
             allele1 == parts[4]
             allele2 == parts[5]
         IN  IF rsid = "" \/ ~RsidAccepted(rsid) THEN NoVariant
             ELSE IF chromosome = "" \/ ~isValidChromosome(chromosome) THEN NoVariant
             ELSE IF position.nan \/ position.value <= 0 THEN NoVariant
             ELSE IF allele1 = "" \/ allele2 = "" THEN NoVariant
             ELSE IF combineAlleles(allele1, allele2) = Null THEN NoVariant
             ELSE [emitted |-> TRUE,
                   rsid |-> emittedRsid(rsid),
                   chromosome |-> normalizeChromosome(chromosome),
                   position |-> position.value,
                   genotype |-> combineAlleles(allele1, allele2)]

\* What a parser call leaves: a ParseResult (kind "result") or a thrown
\* ParseError (kind "error"); `warnings` is the local list of parseAncestry,
\* `reported` the number in the message of result.warnings, `parser` the vendor
\* parser that ran.
NoOutcome == [kind |-> "none", format |-> "none", variants |-> << >>,
              warnings |-> << >>, reported |-> 0, error |-> "none",
              parser |-> "none"]

\* String.prototype.trimStart and trimEnd on the fields of the model.
trimStart(s) == IF s = "  " THEN "" ELSE s
trimEnd(s) == trim(s)

\* The fields left of a line once the blank fields at its start are dropped,
\* and the same at its end.
RECURSIVE DropLeading(_)
DropLeading(parts) ==
    IF parts # << >> /\ trim(Head(parts)) = "" THEN DropLeading(Tail(parts))
    ELSE parts

RECURSIVE DropTrailing(_)
DropTrailing(parts) ==
    IF parts # << >> /\ trim(parts[Len(parts)]) = ""
    THEN DropTrailing(SubSeq(parts, 1, Len(parts) - 1))
    ELSE parts

\* line.trim(): white space, tabs included, leaves both ends of the line.
TrimLine(line) ==
    LET inner == DropTrailing(DropLeading(line))
    IN  [i \in 1..Len(inner) |->
            LET left == IF i = 1 THEN trimStart(inner[i]) ELSE inner[i]
            IN  IF i = Len(inner) THEN trimEnd(left) ELSE left]

\* The number of characters of a field; #pad1990 and #pad2000 are comments of
\* 1990 and 2000 characters.
length(s) ==
    CASE s = "#pad1990" -> 1990
      [] s = "#pad2000" -> 2000
      [] s = "#AncestryDNA raw data download" -> 30
      [] s = "# 23andMe" -> 9
      [] s = "# rsid" -> 6
      [] s = "rsid" -> 4
      [] s = "chromosome" -> 10
      [] s = "position" -> 8
      [] s = "allele1" -> 7
      [] s = "allele2" -> 7
      [] s = "genotype" -> 8
      [] s = "rs1" -> 3
      [] s = "rs2" -> 3
      [] s = "rs3" -> 3
      [] s = "RS1" -> 3
      [] s = "rsid9" -> 5
      [] s = "i5" -> 2
      [] s = "1" -> 1
      [] s = "23" -> 2
      [] s = "MT" -> 2
      [] s = "100" -> 3
      [] s = "abc" -> 3
      [] s = "A" -> 1
      [] s = "T" -> 1
      [] s = "G " -> 2
      [] s = "0" -> 1
      [] s = "CT" -> 2
      [] s = "" -> 0
      [] s = "  " -> 2
\* The number of characters of a line: its fields and the tabs between them.
RECURSIVE LineChars(_)
LineChars(line) ==
    IF Len(line) = 0 THEN 0
    ELSE IF Len(line) = 1 THEN length(line[1])
    ELSE length(Head(line)) + 1 + LineChars(Tail(line))

\* The index in the content of the first character of line k, counted from 0;
\* each line before it ends with one line feed.
RECURSIVE Offset(_, _)
Offset(c, k) ==
    IF k = 1 THEN 0 ELSE Offset(c, k - 1) + LineChars(c[k - 1]) + 1

\* The texts detectFormat searches for.
AncestryHeader == <<"rsid", "chromosome", "position", "allele1", "allele2">>
Header23andMe == <<"# rsid", "chromosome", "position", "genotype">>

\* Where the searched texts occur in a line: the text and the number of
\* characters of the line up to its end.
Occurrences(line) ==
    (IF line[1] = "#AncestryDNA raw data download"
     THEN {[text |-> "AncestryDNA", end |-> 12]} ELSE {})
    \cup (IF line[1] = "# 23andMe"
          THEN {[text |-> "23andMe", end |-> 9]} ELSE {})
    \cup (IF Len(line) >= 5 /\ SubSeq(line, 1, 5) = AncestryHeader
          THEN {[text |-> "ancestry-header", end |-> LineChars(AncestryHeader)]}
          ELSE {})
    \cup (IF Len(line) >= 4 /\ SubSeq(line, 1, 4) = Header23andMe
          THEN {[text |-> "23andme-header", end |-> LineChars(Header23andMe)]}
          ELSE {})

\* content.slice(0, 2000) keeps the characters before this index.
HeaderWindow == 2000

sliceEnd_Whole(total) == total

sliceEnd(total) == IF total < HeaderWindow THEN total ELSE HeaderWindow

\* The number of characters of the content.
ContentChars(c) ==
    IF c = << >> THEN 0 ELSE Offset(c, Len(c)) + LineChars(c[Len(c)])

\* header.includes(text) on firstLines = content.slice(0, 2000).
Includes(c, text) ==
    \E k \in 1..Len(c) :
        \E o \in Occurrences(c[k]) :
            o.text = text /\ Offset(c, k) + o.end <= sliceEnd(ContentChars(c))

is23andMe(c) == Includes(c, "23andMe") \/ Includes(c, "23andme-header")

detect23andMeVersion(c) ==
    IF Includes(c, "Annotation Release 104") THEN "23andme-v5"
    ELSE IF Includes(c, "Annotation Release 103") THEN "23andme-v4"
    ELSE IF Includes(c, "build 36") THEN "23andme-v3"
    ELSE "23andme-v5"

isAncestry(c) == Includes(c, "AncestryDNA") \/ Includes(c, "ancestry-header")

detectFormat(c) ==
    IF is23andMe(c) THEN detect23andMeVersion(c)
    ELSE IF isAncestry(c) THEN "ancestry"
    ELSE "unknown"

\* parseAncestry: the text of the trimmed line starts with `rsid` and a tab,
\* in any letter case.
IsHeaderLine(trimmed) == Len(trimmed) >= 2 /\ toLowerCase(trimmed[1]) = "rsid"

\* parseAncestry: the line is skipped before parseDataLine is tried.
SkippedLine(line) ==
    \/ line = <<"">>
    \/ TrimLine(line) = << >>
    \/ startsWith(TrimLine(line)[1], "#")
    \/ IsHeaderLine(TrimLine(line))

\* The warning parseAncestry pushes for line i; the data lines of the model
\* are shorter than the 100 characters kept of the line.
Warning(i, trimmed) ==
    [message |-> "Failed to parse line", line |-> i, details |-> trimmed]

\* parseAncestry: variants and warnings after the first n lines.
RECURSIVE ScanLines(_, _)
ScanLines(c, n) ==
    IF n = 0 THEN [variants |-> << >>, warnings |-> << >>]
    ELSE LET before == ScanLines(c, n - 1)
             line == c[n]
             trimmed == TrimLine(line)
             variant == parseDataLine(trimmed)
         IN  IF SkippedLine(line) THEN before
             ELSE IF variant.emitted
                  THEN [before EXCEPT !.variants = Append(@, variant)]
             ELSE IF ~startsWith(trimmed[1], "rsid")
                  THEN [before EXCEPT !.warnings = Append(@, Warning(n, trimmed))]
             ELSE before

\* Variant of ParserOutcome that returns a result with no variants.
ParserOutcome_NeverFatal(vendor, scanned) ==
    [NoOutcome EXCEPT !.kind = "result", !.format = vendor,
                      !.variants = scanned.variants,
                      !.warnings = scanned.warnings,
                      !.reported = Len(scanned.warnings),
                      !.parser = vendor]

\* The result or ParseError a vendor parser builds from the scanned lines.
ParserOutcome(vendor, scanned) ==
    IF Len(scanned.variants) = 0
    THEN [NoOutcome EXCEPT !.kind = "error", !.error = "no-valid-variants",
                           !.warnings = scanned.warnings, !.parser = vendor]
    ELSE [NoOutcome EXCEPT !.kind = "result", !.format = vendor,
                           !.variants = scanned.variants,
                           !.warnings = scanned.warnings,
                           !.reported = Len(scanned.warnings),
                           !.parser = vendor]

parseAncestry(c) == ParserOutcome("ancestry", ScanLines(c, Len(c)))

\* The 23andMe parser (./23andme): a data line has the four columns rsid,
\* chromosome, position, genotype; the genotype passes through in uppercase.
IsGenotype(g) ==
    g = "--" \/ g \in { Concat(a1, a2) : a1, a2 \in {"A", "C", "G", "T"} }
             \/ g \in { Concat(a1, a2) : a1, a2 \in {"D", "I"} }

parse23andMeLine(parts) ==
    IF Len(parts) < 4 THEN NoVariant
    ELSE IF parts[1] = "" \/ ~RsidAccepted(parts[1]) THEN NoVariant
    ELSE IF toUpperCase(parts[2]) \notin Autosomes \cup {"X", "Y", "MT"} THEN NoVariant
    ELSE IF parseInt(parts[3]).nan \/ parseInt(parts[3]).value <= 0 THEN NoVariant
    ELSE IF ~IsGenotype(toUpperCase(parts[4])) THEN NoVariant
    ELSE [emitted |-> TRUE,
          rsid |-> toLowerCase(parts[1]),
          chromosome |-> toUpperCase(parts[2]),
          position |-> parseInt(parts[3]).value,
          genotype |-> toUpperCase(parts[4])]

RECURSIVE Scan23andMe(_, _)
Scan23andMe(c, n) ==
    IF n = 0 THEN [variants |-> << >>, warnings |-> << >>]
    ELSE LET before == Scan23andMe(c, n - 1)
             trimmed == TrimLine(c[n])
             variant == parse23andMeLine(trimmed)
         IN  IF trimmed = << >> \/ startsWith(trimmed[1], "#") \/ IsHeaderLine(trimmed)
             THEN before
             ELSE IF variant.emitted
                  THEN [before EXCEPT !.variants = Append(@, variant)]
             ELSE [before EXCEPT !.warnings = Append(@, Warning(n, trimmed))]

parse23andMe(c) == ParserOutcome("23andme", Scan23andMe(c, Len(c)))

\* parseGenomeFile (part_007:256-277).
parseGenomeFile(c) ==
    LET format == detectFormat(c)
    IN  IF format \in {"23andme-v5", "23andme-v4", "23andme-v3"}
        THEN IF parse23andMe(c).kind = "result"
             THEN [parse23andMe(c) EXCEPT !.format = format]
             ELSE parse23andMe(c)
        ELSE IF format = "ancestry" THEN parseAncestry(c)
        ELSE [NoOutcome EXCEPT !.kind = "error", !.error = "unsupported-format"]


\* No call of the parser was made.
NoParse == [op |-> "none", variant |-> NoVariant, format |-> "none",
            outcome |-> NoOutcome]

\* No file content is held and nothing was parsed.
NoParsing ==
    /\ content = << >>
    /\ parsing = NoParse

\* A call of parseDataLine on the first line of the content.
CallParseDataLine ==
    /\ Len(content) = 1
    /\ parsing.op = "none"
    /\ parsing' = [NoParse EXCEPT !.op = "parseDataLine",
                                  !.variant = parseDataLine(content[1])]
    /\ UNCHANGED <<clientVars, now, serviceVars, fileVars, extractVars, content, catalogVars, sizeVars, resultVars, replies>>

\* A call of detectFormat on the content.
CallDetectFormat ==
    /\ parsing.op = "none"
    /\ parsing' = [NoParse EXCEPT !.op = "detectFormat",
                                  !.format = detectFormat(content)]
    /\ UNCHANGED <<clientVars, now, serviceVars, fileVars, extractVars, content, catalogVars, sizeVars, resultVars, replies>>

\* A call of parseAncestry on the content.
CallParseAncestry ==
    /\ parsing.op = "none"
    /\ parsing' = [NoParse EXCEPT !.op = "parseAncestry",
                                  !.outcome = parseAncestry(content)]
    /\ UNCHANGED <<clientVars, now, serviceVars, fileVars, extractVars, content, catalogVars, sizeVars, resultVars, replies>>

\* A call of parseGenomeFile on the content.
CallParseGenomeFile ==
    /\ parsing.op = "none"
    /\ parsing' = [NoParse EXCEPT !.op = "parseGenomeFile",
                                  !.format = detectFormat(content),
                                  !.outcome = parseGenomeFile(content)]
    /\ UNCHANGED <<clientVars, now, serviceVars, fileVars, extractVars, content, catalogVars, sizeVars, resultVars, replies>>

\* A file with content c was read: parseAndShowPreview(c) (main.ts:797-824)
\* with parseGenomeFile and, on a result, showPreview (main.ts:656-672), which
\* makes it the current parse result.
PreviewFile(c) ==
    \E outcome \in {parseGenomeFile(c)} :
        /\ content' = c
        /\ parsing' = [NoParse EXCEPT !.op = "parseAndShowPreview",
                                      !.format = detectFormat(c),
                                      !.outcome = outcome]
        /\ parseAndShowPreview(outcome.kind = "result")
        /\ parseVariants' = IF outcome.kind = "result" THEN outcome.variants
                            ELSE parseVariants
        /\ UNCHANGED <<now, serviceVars, fileVars, snpVariants, extraction, catalogVars, sizeVars, resultVars, replies>>

(***************************************************************************)
(* Catalog validation (src/unnamed/part_003:13-88)                         *)
(***************************************************************************)
\* A JSON value is its typeof tag with its string (`str`), number (`num`) or
\* array items; an absent property has the tag "undefined".
Str(v) == [type |-> "string", str |-> v, num |-> 0]
Num(n) == [type |-> "number", str |-> "", num |-> n]
Absent == [type |-> "undefined", str |-> "", num |-> 0]

\* Variant of validateSNPEntry that accepts every entry.
validateSNPEntry_Lenient(entry) == "ok"

\* validateSNPEntry: the message of the Error thrown for the entry, or "ok".
validateSNPEntry(entry) ==
    IF ~entry.isObject THEN "expected an object"
    ELSE IF entry.rsid.type # "string" \/ ~startsWith(entry.rsid.str, "rs")
         THEN "invalid rsid"
    ELSE IF entry.gene.type # "string" THEN "missing gene"
    ELSE IF entry.category.type # "string" THEN "missing category"
    ELSE IF entry.category.str \notin ALL_CATEGORIES THEN "unknown category"
    ELSE IF entry.annotation.type # "string" THEN "missing annotation"
    ELSE IF ~entry.sources.isArray THEN "missing sources"
    ELSE IF \E i \in 1..Len(entry.sources.items) : entry.sources.items[i] # "string"
         THEN "sources must be array of strings"
    ELSE "ok"

\* The for loop of validateSNPList: the message of the first entry that
\* throws, or "ok".
RECURSIVE ValidateEntries(_)
ValidateEntries(entries) ==
    IF entries = << >> THEN "ok"
    ELSE IF validateSNPEntry(Head(entries)) # "ok" THEN validateSNPEntry(Head(entries))
    ELSE ValidateEntries(Tail(entries))

\* What validateSNPList leaves: the SNPList returned, or the Error thrown, and
\* whether console.warn reported a count mismatch.
NoValidated == [kind |-> "none", error |-> "none", warned |-> FALSE,
                version |-> "", generatedAt |-> Absent, count |-> 0,
                variants |-> << >>]

actualCount_Declared(data) ==
    IF data.count.type = "number" THEN data.count.num ELSE Len(data.variants.items)

actualCount(data) == Len(data.variants.items)

Thrown(message) == [NoValidated EXCEPT !.kind = "error", !.error = message]

validateSNPList(data, clock) ==
    IF ~data.isObject THEN Thrown("expected an object")
    ELSE IF data.version.type # "string" THEN Thrown("missing version")
    ELSE IF ~data.variants.isArray THEN Thrown("missing variants array")
    ELSE IF ValidateEntries(data.variants.items) # "ok"
         THEN Thrown(ValidateEntries(data.variants.items))
    ELSE [NoValidated EXCEPT
            !.kind = "result",
            !.warned = (data.count.type = "number"
                          /\ data.count.num # Len(data.variants.items)),
            !.version = data.version.str,
            !.generatedAt = IF data.generatedAt.type = "string" THEN data.generatedAt
                            ELSE Num(clock),
            !.count = actualCount(data),
            !.variants = data.variants.items]

\* No JSON was handed to validateSNPList.
NoJson == [isObject |-> FALSE, version |-> Absent, generatedAt |-> Absent,
           count |-> Absent, variants |-> [isArray |-> FALSE, items |-> << >>]]

NoValidation ==
    /\ snpListJson = NoJson
    /\ validation = NoValidated

\* A call of validateSNPList on the JSON.
CallValidateSNPList ==
    /\ validation.kind = "none"
    /\ validation' = validateSNPList(snpListJson, now)
    /\ UNCHANGED <<clientVars, now, serviceVars, fileVars, extractVars, parseVars,
                   snpListJson, sizeVars, resultVars, replies>>

(***************************************************************************)
(* Output: the displayed file size (yaml.ts:213-223)                       *)
(***************************************************************************)
KB == 1024
\* 1024 * 1024
MB == 1048576

\* Number.prototype.toFixed(1) of bytes / unit: the integer n with n / 10
\* closest to the quotient, the larger one on a tie.  The quotient by a
\* power of two is exact, so n is the rounded quotient of the integers.
toFixed1(bytes, unit) ==
    LET n == (2 * 10 * bytes + unit) \div (2 * unit)
    IN  [whole |-> n \div 10, decimals |-> <<n % 10>>]

\* Variant of calculateSize whose kilobyte range includes the threshold's
\* predecessor and excludes the megabyte threshold's.
calculateSize_Shifted(bytes) ==
    IF bytes < KB - 1
    THEN [whole |-> bytes, decimals |-> << >>, unit |-> "B"]
    ELSE IF bytes < MB - 1
    THEN [whole |-> toFixed1(bytes, KB).whole,
          decimals |-> toFixed1(bytes, KB).decimals, unit |-> "KB"]
    ELSE [whole |-> toFixed1(bytes, MB).whole,
          decimals |-> toFixed1(bytes, MB).decimals, unit |-> "MB"]

\* calculateSize: the text as its integer part, its decimals and its unit.
calculateSize(bytes) ==
    IF bytes < KB
    THEN [whole |-> bytes, decimals |-> << >>, unit |-> "B"]
    ELSE IF bytes < MB
    THEN [whole |-> toFixed1(bytes, KB).whole,
          decimals |-> toFixed1(bytes, KB).decimals, unit |-> "KB"]
    ELSE [whole |-> toFixed1(bytes, MB).whole,
          decimals |-> toFixed1(bytes, MB).decimals, unit |-> "MB"]

NoText == [whole |-> 0, decimals |-> << >>, unit |-> ""]

NoSize == outputBytes = 0 /\ fileSize = NoText

CallCalculateSize ==
    /\ fileSize' = calculateSize(outputBytes)
    /\ UNCHANGED <<clientVars, now, serviceVars, fileVars, extractVars, parseVars,
                   catalogVars, outputBytes, resultVars, replies>>

(***************************************************************************)
(* Client: category arrays, output format and extraction results           *)
(* (main.ts:176-177, 289-296, 344-367, 616-634, 674-719, 896-915)          *)
(***************************************************************************)
MaxArrays == 3
MaxResults == 2

\* The order of the category checkboxes (main.ts:580-613).
CategoryOrder == <<"methylation", "vitamins_minerals", "food_sensitivities">>

\* CATEGORY_PRESETS (part_007:102-106): demo and full are the one array
\* ALL_CATEGORIES, wellness is an array of its own.
CATEGORY_PRESETS == [demo |-> 1, wellness |-> 2, full |-> 1]

InitialArrays == <<CategoryOrder, CategoryOrder>>

NoResults ==
    /\ arrays = InitialArrays
    /\ selectedCategories = CATEGORY_PRESETS["demo"]
    /\ selectedFormat = "detailed"
    /\ results = << >>

\* An array passed as categoryFilter.
FilterOf(array) == [given |-> TRUE, categories |-> { array[k] : k \in DOMAIN array }]

\* Variant of gatherChecked that empties and refills the current array.
gatherChecked_InPlace(heap, selected, checked) ==
    [arrays |-> [heap EXCEPT ![selected] = SelectSeq(CategoryOrder, LAMBDA c : c \in checked)],
     selectedCategories |-> selected]

\* main.ts:617-625: selectedCategories becomes a new array, to which the
\* checked categories are pushed.
gatherChecked(heap, selected, checked) ==
    [arrays |-> Append(heap, SelectSeq(CategoryOrder, LAMBDA c : c \in checked)),
     selectedCategories |-> Len(heap) + 1]

\* The value of a result: its fields with the array categoriesIncluded
\* refers to.
ResultValue(result) ==
    [result EXCEPT !.metadata.categoriesIncluded = FilterOf(arrays[@])]

\* updateEstimate (main.ts:674-683) with the category array `selected`.
updateEstimate(heap, selected) ==
    IF currentParseResult = NULL \/ snpList = NULL
    THEN UNCHANGED extraction
    ELSE extraction' = [NoCall EXCEPT
                          !.op = "estimateMatches",
                          !.categoryFilter = FilterOf(heap[selected]),
                          !.estimate = estimateMatches(parseVariants, snpVariants,
                                                       FilterOf(heap[selected]),
                                                       Undefined),
                          !.indexBuilt = TRUE]

\* updateOutputPreview (main.ts:711-719) on the result `shown`.
updateOutputPreview(shown, format) ==
    LET output == toYAML(shown, format)
    IN  /\ extraction' = [NoCall EXCEPT !.op = "toYAML", !.result = shown,
                                        !.format = format, !.output = output]
        /\ outputBytes' = output.chars
        /\ fileSize' = calculateSize(output.chars)

\* The change listener of the output format (main.ts:289-296).
ChangeFormat(format) ==
    /\ ListenersRegistered
    /\ selectedFormat' = format
    /\ IF currentResult = NULL \/ results = << >>
       THEN UNCHANGED <<extraction, sizeVars>>
       ELSE updateOutputPreview(ResultValue(results[Len(results)]), format)
    /\ UNCHANGED <<clientVars, now, serviceVars, fileVars, parseVariants, snpVariants,
                   parseVars, catalogVars, arrays, selectedCategories, results, replies>>

\* handleCategoryCheckboxChange (main.ts:616-634).
handleCategoryCheckboxChange(checked) ==
    /\ ListenersRegistered
    /\ Len(arrays) < MaxArrays
    /\ LET gathered == gatherChecked(arrays, selectedCategories, checked)
       IN  /\ arrays' = gathered.arrays
           /\ selectedCategories' = gathered.selectedCategories
           /\ updateEstimate(gathered.arrays, gathered.selectedCategories)
    /\ UNCHANGED <<clientVars, now, serviceVars, fileVars, parseVariants, snpVariants,
                   parseVars, catalogVars, sizeVars, selectedFormat, results, replies>>

\* handlePresetChange (main.ts:344-367) with its category array and estimate.
SelectPreset(preset) ==
    /\ handlePresetChange(preset)
    /\ selectedCategories' = CATEGORY_PRESETS[preset]
    /\ updateEstimate(arrays, CATEGORY_PRESETS[preset])
    /\ UNCHANGED <<now, serviceVars, fileVars, parseVariants, snpVariants, parseVars,
                   catalogVars, sizeVars, arrays, selectedFormat, results, replies>>

\* performExtraction reaches extractVariants without a fetch (main.ts:874-894).
ExtractsNow ==
    /\ currentParseResult # NULL
    /\ snpList # NULL
    /\ ~(PRESET_REQUIRES_TOKEN[currentPreset] /\ (storedToken = NULL \/ ~licenseValidated))
    /\ ~(PRESET_REQUIRES_TOKEN[currentPreset] /\ NeedsFetch)

\* performExtraction (main.ts:874-915) with extractVariants and showResults
\* (main.ts:685-709): the new result refers to the array passed as
\* categoryFilter (part_004:226).
ExtractSelected ==
    /\ Len(results) < MaxResults
    /\ performExtraction
    /\ IF ExtractsNow
       THEN LET result == extractVariants(parseVariants, snpVariants,
                                          FilterOf(arrays[selectedCategories]),
                                          Undefined)
                created == [result EXCEPT
                              !.metadata.categoriesIncluded = selectedCategories]
            IN  /\ results' = Append(results, created)
                /\ updateOutputPreview(result, selectedFormat)
       ELSE UNCHANGED <<results, extraction, sizeVars>>
    /\ UNCHANGED <<now, serviceVars, fileVars, parseVariants, snpVariants, parseVars,
                   catalogVars, arrays, selectedCategories, selectedFormat, replies>>

(***************************************************************************)
(* Client: the extraction preview (src/unnamed/part_006:750-843)           *)
(***************************************************************************)
\* part_006:796: the categories of the preview and of the extraction
\* (part_006:1054).
categoriesToUse ==
    IF currentPreset = "full" THEN FilterOf(arrays[selectedCategories])
    ELSE [given |-> TRUE, categories |-> ALL_CATEGORIES]

\* part_006:799-821: the matched count is the total of estimateMatches; the
\* no-call and missing counts come from two sets of the rsids of the file.
previewCounts(variants, snpEntries, categories) ==
    LET estimate == estimateMatches(variants, snpEntries, categories, Undefined)
        rsidSet == { variants[k].rsid : k \in DOMAIN variants }
        noCallSet == { variants[k].rsid :
                          k \in { j \in DOMAIN variants : variants[j].genotype = "--" } }
        counted == { k \in DOMAIN snpEntries :
                        snpEntries[k].category \in categories.categories }
        missingCount == Cardinality({ k \in counted : snpEntries[k].rsid \notin rsidSet })
        noCallCount == Cardinality({ k \in counted :
                                        /\ snpEntries[k].rsid \in rsidSet
                                        /\ snpEntries[k].rsid \in noCallSet })
    IN  [shown |-> "counted", matched |-> estimate.total,
         noCall |-> noCallCount, missing |-> missingCount]

\* updateExtractionPreview (part_006:750-843).
updateExtractionPreview ==
    /\ ListenersRegistered
    /\ extraction' =
          [NoCall EXCEPT
             !.op = "updateExtractionPreview",
             !.categoryFilter = categoriesToUse,
             !.preview =
                 IF currentParseResult = NULL \/ snpList = NULL
                 THEN [NoPreview EXCEPT !.shown = "placeholder"]
                 ELSE IF PRESET_REQUIRES_TOKEN[currentPreset] /\ paidSnpList = NULL
                 THEN [NoPreview EXCEPT !.shown = "estimated"]
                 ELSE previewCounts(parseVariants, snpVariants, categoriesToUse)]
    /\ UNCHANGED <<clientVars, now, serviceVars, fileVars, parseVariants, snpVariants,
                   parseVars, catalogVars, sizeVars, resultVars, replies>>

\* loadFreeSNPList settles with the JSON it fetched (loader.ts:17-32), and
\* init() resumes (main.ts:325-335).
LoadFreeCatalog(data) ==
    /\ snpListJson' = data
    /\ validation' = validateSNPList(data, now)
    /\ LoadFreeSNPListDone(validateSNPList(data, now).kind = "result")
    /\ UNCHANGED <<now, serviceVars, fileVars, extractVars, parseVars, sizeVars, resultVars, replies>>

\* decryptSnpList settles on a ciphertext that decrypts to the JSON
\* (main.ts:75-80).
DecryptCatalog(d, data) ==
    /\ snpListJson' = data
    /\ validation' = validateSNPList(data, now)
    /\ DecryptDone(d, IF validateSNPList(data, now).kind = "result"
                      THEN "catalog" ELSE "bad_schema")
    /\ UNCHANGED <<now, serviceVars, fileVars, extractVars, parseVars, sizeVars, resultVars, replies>>

(***************************************************************************)
(* Client: reading the uploaded file (main.ts:741-794)                     *)
(***************************************************************************)
\* The files the user drops or picks.
Files == {"genome-a.txt", "genome-b.txt", "empty.txt", "report.pdf"}

\* main.ts:750-751: the name ends with .txt or .csv.
HasValidExtension(file) == file # "report.pdf"

\* main.ts:778-779: e.target.result of the finished read is a non-empty string.
HasContent(file) == file # "empty.txt"

\* parseGenomeFile(content): the parse result of the file's content.
ParseGenomeFile(file) == file

MsgSnpListNotLoaded == "SNP list not loaded. Please refresh the page."
MsgUnsupported == "Unsupported file format. Please upload a .txt file from 23andMe."
MsgReadContent == "Failed to read file content."
MsgReadFailed == "Failed to read file. Please try again."

\* No FileReader has been created (main.ts:175).
NoFileRead ==
    /\ currentReader = 0
    /\ readers = << >>

\* Variant of ReaderSuperseded without the comparison of lines 777 and 789.
ReaderSuperseded_Never(reader) ==
    FALSE

\* main.ts:777, 789: this reader was superseded by a new one.
ReaderSuperseded(reader) ==
    currentReader # reader

\* currentReader.abort() (main.ts:768-770). The abort of a read that is still
\* loading either takes effect, or comes after the read's load or error event
\* was queued, and then the handler still runs (`delivered`).
AbortCurrentReader(delivered) ==
    IF currentReader # 0 /\ readers[currentReader].state = "loading" /\ ~delivered
    THEN [readers EXCEPT ![currentReader].state = "aborted"]
    ELSE readers

\* handleFile(file) (main.ts:741-794) up to reader.readAsText(file).
handleFile(file, delivered) ==
    /\ ListenersRegistered
    /\ IF snpList = NULL
       THEN errorText' = MsgSnpListNotLoaded /\ UNCHANGED fileVars
       ELSE IF ~HasValidExtension(file)
       THEN errorText' = MsgUnsupported /\ UNCHANGED fileVars
       ELSE /\ Len(readers) < MaxReaders
            /\ errorText' = NoError
            /\ readers' = Append(AbortCurrentReader(delivered),
                                 [file |-> file, state |-> "loading"])
            /\ currentReader' = Len(readers) + 1
    /\ UNCHANGED <<storedToken, sessionsRemaining, sessionExpiresAt, hasActiveSession,
                   licenseValidated, paidSnpList, currentPreset, currentParseResult,
                   currentResult, snpList, localStorageToken, initPc, inflight,
                   decrypting>>

\* reader.onload (main.ts:775-785), with parseAndShowPreview and showPreview
\* (main.ts:797-824, 656-672). The state of the reader records what the
\* handler did.
ReaderOnLoad(reader) ==
    /\ reader \in 1..Len(readers)
    /\ readers[reader].state = "loading"
    /\ IF ReaderSuperseded(reader)
       THEN /\ readers' = [readers EXCEPT ![reader].state = "ignored"]
            /\ UNCHANGED <<currentParseResult, errorText>>
       ELSE /\ readers' = [readers EXCEPT ![reader].state = "loaded"]
            /\ IF ~HasContent(readers[reader].file)
               THEN errorText' = MsgReadContent /\ UNCHANGED currentParseResult
               ELSE IF snpList = NULL
               THEN errorText' = MsgSnpListNotLoaded /\ UNCHANGED currentParseResult
               ELSE /\ currentParseResult' = ParseGenomeFile(readers[reader].file)
                    /\ errorText' = NoError
    /\ UNCHANGED <<storedToken, sessionsRemaining, sessionExpiresAt, hasActiveSession,
                   licenseValidated, paidSnpList, currentPreset, currentResult,
                   snpList, localStorageToken, initPc, inflight, decrypting,
                   currentReader>>

\* reader.onerror (main.ts:787-791).
ReaderOnError(reader) ==
    /\ reader \in 1..Len(readers)
    /\ readers[reader].state = "loading"
    /\ IF ReaderSuperseded(reader)
       THEN /\ readers' = [readers EXCEPT ![reader].state = "ignored"]
            /\ UNCHANGED errorText
       ELSE /\ readers' = [readers EXCEPT ![reader].state = "failed"]
            /\ errorText' = MsgReadFailed
    /\ UNCHANGED <<storedToken, sessionsRemaining, sessionExpiresAt, hasActiveSession,
                   licenseValidated, paidSnpList, currentPreset, currentParseResult,
                   currentResult, snpList, localStorageToken, initPc, inflight,
                   decrypting, currentReader>>

\* The page with no key in the URL or in localStorage.
ReaderInit ==
    /\ ClientInit
    /\ localStorageToken = NULL
    /\ ServiceIdle
    /\ NoFileRead
    /\ NoExtraction
    /\ NoParsing
    /\ NoValidation
    /\ NoSize
    /\ NoResults
    /\ replies = EmptyBag

ReaderNext ==
    \/ \E p \in PresetInputs \cup {NULL} :
          init(NULL, p) /\ UNCHANGED <<now, serviceVars, fileVars, extractVars, parseVars, catalogVars, sizeVars, resultVars, replies>>
    \/ \E loaded \in BOOLEAN :
          LoadFreeSNPListDone(loaded) /\ UNCHANGED <<now, serviceVars, fileVars, extractVars, parseVars, catalogVars, sizeVars, resultVars, replies>>
    \/ \E file \in Files, delivered \in BOOLEAN :
          handleFile(file, delivered) /\ UNCHANGED <<now, serviceVars, extractVars, parseVars, catalogVars, sizeVars, resultVars, replies>>
    \/ \E reader \in 1..Len(readers) :
          ReaderOnLoad(reader) /\ UNCHANGED <<now, serviceVars, extractVars, parseVars, catalogVars, sizeVars, resultVars, replies>>
    \/ \E reader \in 1..Len(readers) :
          ReaderOnError(reader) /\ UNCHANGED <<now, serviceVars, extractVars, parseVars, catalogVars, sizeVars, resultVars, replies>>
    \/ resetToUpload /\ UNCHANGED <<now, serviceVars, fileVars, extractVars, parseVars, catalogVars, sizeVars, resultVars, replies>>

SpecReader == ReaderInit /\ [][ReaderNext]_vars

(***************************************************************************)
(* License Service: the session window of one key                          *)
(***************************************************************************)
\* Variant of SessionWindowOpen whose window still covers the 24th hour.
SessionWindowOpen_Inclusive(lastSessionStartedAt, t) ==
    lastSessionStartedAt # NullNum /\ t - lastSessionStartedAt <= SESSION_WINDOW

\* now - lastSessionStartedAt < 24h
SessionWindowOpen(lastSessionStartedAt, t) ==
    lastSessionStartedAt # NullNum /\ t - lastSessionStartedAt < SESSION_WINDOW

\* The record after a consuming call that starts a window.
StartSession ==
    /\ srvSessionsRemaining' = srvSessionsRemaining - 1
    /\ srvLastSessionStartedAt' = now

\* Variant of ServiceValidateSession that starts a session on every call.
ServiceValidateSession_AlwaysCharges ==
    /\ IF srvSessionsRemaining > 0
       THEN /\ StartSession
            /\ srvReply' = [api |-> "validate-session", valid |-> TRUE,
                            sessionsRemaining |-> srvSessionsRemaining',
                            hasActiveSession |-> TRUE,
                            sessionExpiresAt |-> srvLastSessionStartedAt' + SESSION_WINDOW,
                            encryptedSnpList |-> "base64",
                            error |-> "none", at |-> now]
       ELSE /\ srvReply' = [NoReply EXCEPT !.api = "validate-session",
                                           !.error = "exhausted", !.at = now]
            /\ UNCHANGED <<srvSessionsRemaining, srvLastSessionStartedAt>>
    /\ UNCHANGED <<now, clientVars>>

\* POST /validate-session (validate-token): consuming, idempotent in the window.
ServiceValidateSession ==
    /\ IF SessionWindowOpen(srvLastSessionStartedAt, now)
       THEN /\ srvReply' = [api |-> "validate-session", valid |-> TRUE,
                            sessionsRemaining |-> srvSessionsRemaining,
                            hasActiveSession |-> TRUE,
                            sessionExpiresAt |-> srvLastSessionStartedAt + SESSION_WINDOW,
                            encryptedSnpList |-> "base64",
                            error |-> "none", at |-> now]
            /\ UNCHANGED <<srvSessionsRemaining, srvLastSessionStartedAt>>
       ELSE IF srvSessionsRemaining > 0
       THEN /\ StartSession
            /\ srvReply' = [api |-> "validate-session", valid |-> TRUE,
                            sessionsRemaining |-> srvSessionsRemaining',
                            hasActiveSession |-> TRUE,
                            sessionExpiresAt |-> srvLastSessionStartedAt' + SESSION_WINDOW,
                            encryptedSnpList |-> "base64",
                            error |-> "none", at |-> now]
       ELSE /\ srvReply' = [NoReply EXCEPT !.api = "validate-session",
                                           !.error = "exhausted", !.at = now]
            /\ UNCHANGED <<srvSessionsRemaining, srvLastSessionStartedAt>>
    /\ UNCHANGED <<now, clientVars>>

\* POST /check-license: non-consuming.
ServiceCheckLicense ==
    /\ LET active == SessionWindowOpen(srvLastSessionStartedAt, now) IN
         srvReply' =
           IF active \/ srvSessionsRemaining > 0
           THEN [api |-> "check-license", valid |-> TRUE,
                 sessionsRemaining |-> srvSessionsRemaining,
                 hasActiveSession |-> active,
                 sessionExpiresAt |-> IF active
                                      THEN srvLastSessionStartedAt + SESSION_WINDOW
                                      ELSE NullNum,
                 encryptedSnpList |-> "absent",
                 error |-> "none", at |-> now]
           ELSE [NoReply EXCEPT !.api = "check-license", !.error = "exhausted",
                                !.at = now]
    /\ UNCHANGED <<srvSessionsRemaining, srvLastSessionStartedAt, now, clientVars>>

\* An hour passes.
Tick ==
    /\ now < MaxNow
    /\ now' = now + 1
    /\ UNCHANGED <<serviceVars, clientVars>>

ServiceInit ==
    /\ now = 0
    /\ srvSessionsRemaining \in 0..SESSIONS_PER_LICENSE
    /\ srvLastSessionStartedAt = NullNum
    /\ srvReply = NoReply
    /\ ClientInit
    /\ localStorageToken = NULL
    /\ NoFileRead
    /\ NoExtraction
    /\ NoParsing
    /\ NoValidation
    /\ NoSize
    /\ NoResults
    /\ replies = EmptyBag

ServiceNext ==
    \/ ServiceValidateSession /\ UNCHANGED <<fileVars, extractVars, parseVars, catalogVars, sizeVars, resultVars, replies>>
    \/ ServiceCheckLicense /\ UNCHANGED <<fileVars, extractVars, parseVars, catalogVars, sizeVars, resultVars, replies>>
    \/ Tick /\ UNCHANGED <<fileVars, extractVars, parseVars, catalogVars, sizeVars, resultVars, replies>>

SpecService == ServiceInit /\ [][ServiceNext]_vars

(***************************************************************************)
(* Specification of the client                                             *)
(***************************************************************************)
Init ==
    ClientInit /\ ServiceIdle /\ NoFileRead /\ NoExtraction /\ NoParsing /\ NoValidation
    /\ NoSize
    /\ NoResults
    /\ replies = EmptyBag

Next ==
    \/ \E u \in UrlKeys, p \in PresetInputs \cup {NULL} :
          init(u, p) /\ UNCHANGED <<now, serviceVars, fileVars, extractVars, parseVars, catalogVars, sizeVars, resultVars, replies>>
    \/ \E r \in BagToSet(inflight), reply \in CheckReplies,
          p \in PresetInputs \cup {NULL} :
          InitUrlResponse(r, reply.transport, reply.body, p)
          /\ UNCHANGED <<now, serviceVars, fileVars, extractVars, parseVars, catalogVars, sizeVars, resultVars, replies>>
    \/ \E loaded \in BOOLEAN :
          LoadFreeSNPListDone(loaded) /\ UNCHANGED <<now, serviceVars, fileVars, extractVars, parseVars, catalogVars, sizeVars, resultVars, replies>>
    \/ \E token \in TokenInputs :
          handleTokenValidation(token) /\ UNCHANGED <<now, serviceVars, fileVars, extractVars, parseVars, catalogVars, sizeVars, resultVars, replies>>
    \/ \E r \in BagToSet(inflight), reply \in CheckReplies :
          TokenValidationResponse(r, reply.transport, reply.body)
          /\ UNCHANGED <<now, serviceVars, fileVars, extractVars, parseVars, catalogVars, sizeVars, resultVars, replies>>
    \/ \E r \in BagToSet(inflight), reply \in CheckReplies :
          BackgroundCheckResponse(r, reply.transport, reply.body)
          /\ UNCHANGED <<now, serviceVars, fileVars, extractVars, parseVars, catalogVars, sizeVars, resultVars, replies>>
    \/ clearToken /\ UNCHANGED <<now, serviceVars, fileVars, extractVars, parseVars, catalogVars, sizeVars, resultVars, replies>>
    \/ \E preset \in PresetInputs :
          handlePresetChange(preset) /\ UNCHANGED <<now, serviceVars, fileVars, extractVars, parseVars, catalogVars, sizeVars, resultVars, replies>>
    \/ \E parses \in ParseOutcomes :
          parseAndShowPreview(parses) /\ UNCHANGED <<now, serviceVars, fileVars, extractVars, parseVars, catalogVars, sizeVars, resultVars, replies>>
    \/ resetToUpload /\ UNCHANGED <<now, serviceVars, fileVars, extractVars, parseVars, catalogVars, sizeVars, resultVars, replies>>
    \/ performExtraction /\ UNCHANGED <<now, serviceVars, fileVars, extractVars, parseVars, catalogVars, sizeVars, resultVars, replies>>
    \/ \E r \in BagToSet(inflight), reply \in ValidateReplies :
          FetchResponse(r, reply.transport, reply.body)
          /\ UNCHANGED <<now, serviceVars, fileVars, extractVars, parseVars, catalogVars, sizeVars, resultVars, replies>>
    \/ \E d \in BagToSet(decrypting), plaintext \in Plaintexts :
          DecryptDone(d, plaintext) /\ UNCHANGED <<now, serviceVars, fileVars, extractVars, parseVars, catalogVars, sizeVars, resultVars, replies>>

Spec == Init /\ [][Next]_vars

(***************************************************************************)
(* Specification of the client in which the background check of a restored *)
(* key settles: its fetch resolves or rejects, and checkLicense turns      *)
(* either into a result (main.ts:95-113)                                   *)
(***************************************************************************)
BackgroundCheckSettles ==
    \E r \in BagToSet(inflight), reply \in CheckReplies :
        BackgroundCheckResponse(r, reply.transport, reply.body)
        /\ UNCHANGED <<now, serviceVars, fileVars, extractVars, parseVars, catalogVars,
                       sizeVars, resultVars, replies>>

SpecSettling == Init /\ [][Next]_vars /\ WF_vars(BackgroundCheckSettles)

(***************************************************************************)
(* Specification of the client with the wall clock: one key, page load,    *)
(* file, extraction, and the passing of session windows                    *)
(***************************************************************************)
\* Twenty-four hours pass in the browser.
SessionWindowPasses ==
    /\ now + SESSION_WINDOW <= MaxNow
    /\ now' = now + SESSION_WINDOW
    /\ UNCHANGED <<clientVars, serviceVars, fileVars, extractVars, parseVars, catalogVars, sizeVars, resultVars, replies>>

SessionNext ==
    \/ \E u \in UrlKeys, p \in PresetInputs \cup {NULL} :
          init(u, p) /\ UNCHANGED <<now, serviceVars, fileVars, extractVars, parseVars, catalogVars, sizeVars, resultVars, replies>>
    \/ \E r \in BagToSet(inflight), reply \in CheckReplies,
          p \in PresetInputs \cup {NULL} :
          InitUrlResponse(r, reply.transport, reply.body, p)
          /\ UNCHANGED <<now, serviceVars, fileVars, extractVars, parseVars, catalogVars, sizeVars, resultVars, replies>>
    \/ \E r \in BagToSet(inflight), reply \in CheckReplies :
          BackgroundCheckResponse(r, reply.transport, reply.body)
          /\ UNCHANGED <<now, serviceVars, fileVars, extractVars, parseVars, catalogVars, sizeVars, resultVars, replies>>
    \/ \E loaded \in BOOLEAN :
          LoadFreeSNPListDone(loaded) /\ UNCHANGED <<now, serviceVars, fileVars, extractVars, parseVars, catalogVars, sizeVars, resultVars, replies>>
    \/ \E preset \in PresetInputs :
          handlePresetChange(preset) /\ UNCHANGED <<now, serviceVars, fileVars, extractVars, parseVars, catalogVars, sizeVars, resultVars, replies>>
    \/ \E parses \in ParseOutcomes :
          parseAndShowPreview(parses) /\ UNCHANGED <<now, serviceVars, fileVars, extractVars, parseVars, catalogVars, sizeVars, resultVars, replies>>
    \/ performExtraction /\ UNCHANGED <<now, serviceVars, fileVars, extractVars, parseVars, catalogVars, sizeVars, resultVars, replies>>
    \/ \E r \in BagToSet(inflight), reply \in ValidateReplies :
          FetchResponse(r, reply.transport, reply.body)
          /\ UNCHANGED <<now, serviceVars, fileVars, extractVars, parseVars, catalogVars, sizeVars, resultVars, replies>>
    \/ \E d \in BagToSet(decrypting), plaintext \in Plaintexts :
          DecryptDone(d, plaintext) /\ UNCHANGED <<now, serviceVars, fileVars, extractVars, parseVars, catalogVars, sizeVars, resultVars, replies>>
    \/ SessionWindowPasses

SpecSession == Init /\ [][SessionNext]_vars

(***************************************************************************)
(* Specification of the client with the License Service: the requests of   *)
(* one page are answered by the service, each reply travels back by itself *)
(***************************************************************************)
\* The service has not answered every copy of the request yet.
Unanswered(r) ==
    LET answers == { m \in BagToSet(replies) : m.request = r }
    IN  CopiesIn(r, inflight) > SumOver([m \in answers |-> CopiesIn(m, replies)], answers)

\* The service receives a validate-token request and answers it.
ServeFetch(r) ==
    /\ BagIn(r, inflight) /\ r.api = "validate-token"
    /\ Unanswered(r)
    /\ ServiceValidateSession
    /\ replies' = Add(replies, [request |-> r, body |-> srvReply'])
    /\ UNCHANGED <<fileVars, extractVars, parseVars, catalogVars, sizeVars, resultVars>>

\* The service receives a check-license request and answers it.
ServeCheck(r) ==
    /\ BagIn(r, inflight) /\ r.api = "check-license"
    /\ Unanswered(r)
    /\ ServiceCheckLicense
    /\ replies' = Add(replies, [request |-> r, body |-> srvReply'])
    /\ UNCHANGED <<fileVars, extractVars, parseVars, catalogVars, sizeVars, resultVars>>

\* The reply to the check of init() arrives (main.ts:240-262).
DeliverCheck(m) ==
    /\ BagIn(m, replies)
    /\ replies' = Remove(replies, m)
    /\ InitUrlResponse(m.request, "ok", m.body, "full")
    /\ UNCHANGED <<now, serviceVars, fileVars, extractVars, parseVars, catalogVars,
                   sizeVars, resultVars>>

\* The reply to a consuming fetch arrives (main.ts:841-870).
DeliverFetch(m) ==
    /\ BagIn(m, replies)
    /\ replies' = Remove(replies, m)
    /\ FetchResponse(m.request, "ok", m.body)
    /\ UNCHANGED <<now, serviceVars, fileVars, extractVars, parseVars, catalogVars,
                   sizeVars, resultVars>>

OverlapInit ==
    /\ ClientInit
    /\ localStorageToken = NULL
    /\ now = 0
    /\ srvSessionsRemaining = SESSIONS_PER_LICENSE
    /\ srvLastSessionStartedAt = NullNum
    /\ srvReply = NoReply
    /\ NoFileRead
    /\ NoExtraction
    /\ NoParsing
    /\ NoValidation
    /\ NoSize
    /\ NoResults
    /\ replies = EmptyBag

OverlapNext ==
    \/ init("LICENSE-KEY-A", "full")
       /\ UNCHANGED <<now, serviceVars, fileVars, extractVars, parseVars, catalogVars,
                      sizeVars, resultVars, replies>>
    \/ \E r \in BagToSet(inflight) : ServeCheck(r)
    \/ \E m \in BagToSet(replies) : DeliverCheck(m)
    \/ LoadFreeSNPListDone(TRUE)
       /\ UNCHANGED <<now, serviceVars, fileVars, extractVars, parseVars, catalogVars,
                      sizeVars, resultVars, replies>>
    \/ parseAndShowPreview(TRUE)
       /\ UNCHANGED <<now, serviceVars, fileVars, extractVars, parseVars, catalogVars,
                      sizeVars, resultVars, replies>>
    \/ \E preset \in PresetInputs :
          handlePresetChange(preset)
          /\ UNCHANGED <<now, serviceVars, fileVars, extractVars, parseVars, catalogVars,
                         sizeVars, resultVars, replies>>
    \/ performExtraction
       /\ UNCHANGED <<now, serviceVars, fileVars, extractVars, parseVars, catalogVars,
                      sizeVars, resultVars, replies>>
    \/ \E r \in BagToSet(inflight) : ServeFetch(r)
    \/ \E m \in BagToSet(replies) : DeliverFetch(m)
    \/ \E d \in BagToSet(decrypting) :
          DecryptDone(d, "catalog")
          /\ UNCHANGED <<now, serviceVars, fileVars, extractVars, parseVars, catalogVars,
                         sizeVars, resultVars, replies>>
    \/ SessionWindowPasses

SpecOverlap == OverlapInit /\ [][OverlapNext]_vars

(***************************************************************************)
(* The extractor on every genome file and catalog within the bounds        *)
(***************************************************************************)
ExtractInit ==
    /\ ClientInit
    /\ localStorageToken = NULL
    /\ ServiceIdle
    /\ NoFileRead
    /\ parseVariants \in SeqsUpTo(GenomeVariants, MaxVariants)
    /\ snpVariants \in { c \in SeqsUpTo(SnpEntries, MaxCatalog) : Injective(c) }
    /\ extraction = NoCall
    /\ NoParsing
    /\ NoValidation
    /\ NoSize
    /\ NoResults
    /\ replies = EmptyBag

ExtractNext ==
    \/ \E categoryFilter \in CategoryFilters :
          CallExtractVariants(categoryFilter, Undefined)
          /\ UNCHANGED <<clientVars, now, serviceVars, fileVars, parseVars, catalogVars, sizeVars, resultVars, replies>>
    \/ \E categoryFilter \in CategoryFilters :
          CallEstimateMatches(categoryFilter, Undefined)
          /\ UNCHANGED <<clientVars, now, serviceVars, fileVars, parseVars, catalogVars, sizeVars, resultVars, replies>>
    \/ \E format \in OutputFormats :
          CallToYAML(format) /\ UNCHANGED <<clientVars, now, serviceVars, fileVars, parseVars, catalogVars, sizeVars, resultVars, replies>>

SpecExtract == ExtractInit /\ [][ExtractNext]_vars

(***************************************************************************)
(* Extraction results written out while the clock runs                     *)
(***************************************************************************)
\* A day passes on the wall clock.
DayPasses ==
    /\ now + HoursPerDay <= MaxNow
    /\ now' = now + HoursPerDay
    /\ UNCHANGED <<clientVars, serviceVars, fileVars, extractVars, parseVars, catalogVars, sizeVars, resultVars, replies>>

SerializeInit ==
    /\ ClientInit
    /\ localStorageToken = NULL
    /\ ServiceIdle
    /\ NoFileRead
    /\ parseVariants \in SeqsUpTo(GenomeVariants, MaxSerializedRows)
    /\ snpVariants \in { c \in SeqsUpTo(SnpEntries, MaxCatalog) : Injective(c) }
    /\ extraction = NoCall
    /\ NoParsing
    /\ NoValidation
    /\ NoSize
    /\ NoResults
    /\ replies = EmptyBag

SerializeNext ==
    \/ \E categoryFilter \in CategoryFilters :
          CallExtractVariants(categoryFilter, Undefined)
          /\ UNCHANGED <<clientVars, now, serviceVars, fileVars, parseVars, catalogVars, sizeVars, resultVars, replies>>
    \/ \E format \in OutputFormats :
          CallToYAML(format) /\ UNCHANGED <<clientVars, now, serviceVars, fileVars, parseVars, catalogVars, sizeVars, resultVars, replies>>
    \/ DayPasses

SpecSerialize == SerializeInit /\ [][SerializeNext]_vars

(***************************************************************************)
(* parseDataLine on one data line                                          *)
(***************************************************************************)
\* The fields a data line is drawn from.
RsidFields == {"rs1", "rsAb7", "i5", "RS1", "I5", "VG1", "rsid9", ""}
ChromosomeFields == {"1", "22", "23", "24", "25", "26", "X", "y", "mt", "M",
                     "27", "chrX", ""}
PositionFields == {"100", "0", "-5", "12abc", "abc"}
AlleleFields == {"A", "c", "G ", "T", "0", "-", "D", "I", "N", ""}

DataLines ==
    { <<r, c, p, a1, a2>> : r \in RsidFields, c \in ChromosomeFields,
                            p \in PositionFields, a1 \in AlleleFields,
                            a2 \in AlleleFields }

LineInit ==
    /\ ClientInit
    /\ localStorageToken = NULL
    /\ ServiceIdle
    /\ NoFileRead
    /\ NoExtraction
    /\ content \in { <<line>> : line \in DataLines }
    /\ parsing = NoParse
    /\ NoValidation
    /\ NoSize
    /\ NoResults
    /\ replies = EmptyBag

LineNext == CallParseDataLine

SpecLine == LineInit /\ [][LineNext]_vars

(***************************************************************************)
(* Format detection and parsing of whole files                             *)
(***************************************************************************)
MaxLines == 3
MaxUploadLines == 2

\* The lines a file is made of.
SampleLines ==
    { <<"#AncestryDNA raw data download">>,
      <<"# 23andMe">>,
      AncestryHeader,
      <<"rs1", "23", "100", "A", "G ">>,
      <<"RS1", "1", "100", "A", "A">>,
      <<"rs3", "1", "100", "T", "">>,
      <<"rsid9", "1", "abc", "A", "A">>,
      <<"rs2", "1", "100", "CT">>,
      <<"">>,
      <<"  ">>,
      <<"#pad1990">>,
      <<"#pad2000">> }

ParseInit ==
    /\ ClientInit
    /\ localStorageToken = NULL
    /\ ServiceIdle
    /\ NoFileRead
    /\ NoExtraction
    /\ content \in SeqsUpTo(SampleLines, MaxLines)
    /\ parsing = NoParse
    /\ NoValidation
    /\ NoSize
    /\ NoResults
    /\ replies = EmptyBag

ParseNext ==
    \/ CallDetectFormat
    \/ CallParseAncestry
    \/ CallParseGenomeFile

SpecParse == ParseInit /\ [][ParseNext]_vars

(***************************************************************************)
(* Preview of uploaded files                                               *)
(***************************************************************************)
PreviewInit ==
    /\ ClientInit
    /\ localStorageToken = NULL
    /\ ServiceIdle
    /\ NoFileRead
    /\ NoExtraction
    /\ NoParsing
    /\ NoValidation
    /\ NoSize
    /\ NoResults
    /\ replies = EmptyBag

PreviewNext ==
    \/ init(NULL, "demo")
       /\ UNCHANGED <<now, serviceVars, fileVars, extractVars, parseVars, catalogVars, sizeVars, resultVars, replies>>
    \/ \E loaded \in BOOLEAN :
          LoadFreeSNPListDone(loaded)
          /\ UNCHANGED <<now, serviceVars, fileVars, extractVars, parseVars, catalogVars, sizeVars, resultVars, replies>>
    \/ \E c \in SeqsUpTo(SampleLines, MaxUploadLines) : PreviewFile(c)

SpecPreview == PreviewInit /\ [][PreviewNext]_vars

(***************************************************************************)
(* validateSNPList on one JSON document                                    *)
(***************************************************************************)
MaxEntries == 2

\* A well-formed entry and the entries that differ from it in one property.
GoodEntry == [isObject |-> TRUE, rsid |-> Str("rs1"), gene |-> Str("MTHFR"),
              category |-> Str("methylation"), annotation |-> Str("note"),
              sources |-> [isArray |-> TRUE, items |-> <<"string">>]]

EntrySamples ==
    { GoodEntry,
      [GoodEntry EXCEPT !.rsid = Str("rs2"), !.category = Str("vitamins_minerals"),
                        !.sources = [isArray |-> TRUE, items |-> << >>]],
      [GoodEntry EXCEPT !.isObject = FALSE],
      [GoodEntry EXCEPT !.rsid = Absent],
      [GoodEntry EXCEPT !.rsid = Num(1)],
      [GoodEntry EXCEPT !.rsid = Str("i5")],
      [GoodEntry EXCEPT !.gene = Absent],
      [GoodEntry EXCEPT !.category = Absent],
      [GoodEntry EXCEPT !.category = Str("astrology")],
      [GoodEntry EXCEPT !.annotation = Num(1)],
      [GoodEntry EXCEPT !.sources = [isArray |-> FALSE, items |-> << >>]],
      [GoodEntry EXCEPT !.sources = [isArray |-> TRUE, items |-> <<"string", "number">>]] }

JsonDocuments ==
    { [isObject |-> o, version |-> v, generatedAt |-> g, count |-> c, variants |-> a] :
        o \in BOOLEAN,
        v \in {Str("2025.01"), Absent, Num(2)},
        g \in {Str("2025-01-01"), Absent},
        c \in {Absent, Num(0), Num(1), Num(2), Str("2")},
        a \in {[isArray |-> FALSE, items |-> << >>]}
              \cup { [isArray |-> TRUE, items |-> items] :
                       items \in SeqsUpTo(EntrySamples, MaxEntries) } }

CatalogInit ==
    /\ ClientInit
    /\ localStorageToken = NULL
    /\ ServiceIdle
    /\ NoFileRead
    /\ NoExtraction
    /\ NoParsing
    /\ snpListJson \in JsonDocuments
    /\ validation = NoValidated
    /\ NoSize
    /\ NoResults
    /\ replies = EmptyBag

CatalogNext == CallValidateSNPList

SpecCatalog == CatalogInit /\ [][CatalogNext]_vars

(***************************************************************************)
(* Loading the free and the premium catalog                                *)
(***************************************************************************)
\* The JSON documents the loaders receive: at most one entry, no count.
LoadDocuments ==
    { data \in JsonDocuments :
        /\ data.count = Absent
        /\ data.generatedAt # Absent
        /\ Len(data.variants.items) <= 1 }

LoadInit == Init /\ localStorageToken = NULL

LoadNext ==
    \/ init("LICENSE-KEY-A", "full")
       /\ UNCHANGED <<now, serviceVars, fileVars, extractVars, parseVars, catalogVars, sizeVars, resultVars, replies>>
    \/ \E r \in BagToSet(inflight) :
          \E body \in { b \in CheckBodies : b.valid /\ ~b.hasActiveSession } :
              InitUrlResponse(r, "ok", body, "full")
              /\ UNCHANGED <<now, serviceVars, fileVars, extractVars, parseVars,
                             catalogVars, sizeVars, resultVars, replies>>
    \/ \E data \in LoadDocuments : LoadFreeCatalog(data)
    \/ parseAndShowPreview(TRUE)
       /\ UNCHANGED <<now, serviceVars, fileVars, extractVars, parseVars, catalogVars, sizeVars, resultVars, replies>>
    \/ performExtraction
       /\ UNCHANGED <<now, serviceVars, fileVars, extractVars, parseVars, catalogVars, sizeVars, resultVars, replies>>
    \/ \E r \in BagToSet(inflight) :
          \E body \in { b \in ValidateBodies : b.valid /\ b.encryptedSnpList = "base64" } :
              FetchResponse(r, "ok", body)
              /\ UNCHANGED <<now, serviceVars, fileVars, extractVars, parseVars,
                             catalogVars, sizeVars, resultVars, replies>>
    \/ \E d \in BagToSet(decrypting), data \in LoadDocuments : DecryptCatalog(d, data)

SpecLoad == LoadInit /\ [][LoadNext]_vars

(***************************************************************************)
(* calculateSize on one output                                             *)
(***************************************************************************)
SizeWindow == 30

\* Sizes around zero, around both thresholds and in the middle of each
\* range, with those of tests/output.test.ts.
OutputSizes ==
    {5, 2000, 2000000}
        \cup 0..SizeWindow
        \cup (KB - SizeWindow)..(KB + SizeWindow)
        \cup (MB - SizeWindow)..(MB + SizeWindow)
        \cup (512 * KB - SizeWindow)..(512 * KB + SizeWindow)
        \cup (2 * MB - SizeWindow)..(2 * MB + SizeWindow)

SizeInit ==
    /\ ClientInit
    /\ localStorageToken = NULL
    /\ ServiceIdle
    /\ NoFileRead
    /\ NoExtraction
    /\ NoParsing
    /\ NoValidation
    /\ outputBytes \in OutputSizes
    /\ fileSize = NoText
    /\ NoResults
    /\ replies = EmptyBag

SizeNext == CallCalculateSize

SpecSize == SizeInit /\ [][SizeNext]_vars

(***************************************************************************)
(* Extraction results under format and category changes                    *)
(***************************************************************************)
ResultsInit ==
    /\ ClientInit
    /\ localStorageToken = NULL
    /\ ServiceIdle
    /\ NoFileRead
    /\ parseVariants \in SeqsUpTo(GenomeVariants, MaxSerializedRows)
    /\ snpVariants \in { c \in [1..MaxEntries -> SnpEntries] : Injective(c) }
    /\ extraction = NoCall
    /\ NoParsing
    /\ NoValidation
    /\ NoSize
    /\ NoResults
    /\ replies = EmptyBag

ResultsNext ==
    \/ init(NULL, "demo")
       /\ UNCHANGED <<now, serviceVars, fileVars, extractVars, parseVars, catalogVars,
                      sizeVars, resultVars, replies>>
    \/ LoadFreeSNPListDone(TRUE)
       /\ UNCHANGED <<now, serviceVars, fileVars, extractVars, parseVars, catalogVars,
                      sizeVars, resultVars, replies>>
    \/ parseAndShowPreview(TRUE)
       /\ UNCHANGED <<now, serviceVars, fileVars, extractVars, parseVars, catalogVars,
                      sizeVars, resultVars, replies>>
    \/ \E preset \in CategoryPresets : SelectPreset(preset)
    \/ \E checked \in SUBSET ALL_CATEGORIES : handleCategoryCheckboxChange(checked)
    \/ \E format \in OutputFormats : ChangeFormat(format)
    \/ ExtractSelected

SpecResults == ResultsInit /\ [][ResultsNext]_vars

(***************************************************************************)
(* The extraction preview and the extraction it previews                   *)
(***************************************************************************)
\* Rows as the parsers emit them (lowercase rsid) and entries of a validated
\* catalog (rsid starting with `rs`).
ParsedVariants == { v \in GenomeVariants : v.rsid = toLowerCase(v.rsid) }
ValidatedEntries == { e \in SnpEntries : startsWith(e.rsid, "rs") }

CountsInit ==
    /\ ClientInit
    /\ localStorageToken = NULL
    /\ ServiceIdle
    /\ NoFileRead
    /\ parseVariants \in SeqsUpTo(ParsedVariants, MaxVariants)
    /\ snpVariants \in { c \in SeqsUpTo(ValidatedEntries, MaxEntries) : Injective(c) }
    /\ extraction = NoCall
    /\ NoParsing
    /\ NoValidation
    /\ NoSize
    /\ NoResults
    /\ replies = EmptyBag

CountsNext ==
    \/ init(NULL, "demo")
       /\ UNCHANGED <<now, serviceVars, fileVars, extractVars, parseVars, catalogVars,
                      sizeVars, resultVars, replies>>
    \/ LoadFreeSNPListDone(TRUE)
       /\ UNCHANGED <<now, serviceVars, fileVars, extractVars, parseVars, catalogVars,
                      sizeVars, resultVars, replies>>
    \/ parseAndShowPreview(TRUE)
       /\ UNCHANGED <<now, serviceVars, fileVars, extractVars, parseVars, catalogVars,
                      sizeVars, resultVars, replies>>
    \/ \E preset \in CategoryPresets : SelectPreset(preset)
    \/ updateExtractionPreview
    \/ ExtractSelected

SpecCounts == CountsInit /\ [][CountsNext]_vars

(***************************************************************************)
(* Properties of the license session                                       *)
(***************************************************************************)
\* The current license session (main.ts:174, 179-183).
sessionState == <<storedToken, sessionsRemaining, sessionExpiresAt, hasActiveSession,
                  licenseValidated, paidSnpList>>

\* The session as clearToken leaves it.
SessionCleared ==
    /\ storedToken = NULL
    /\ sessionsRemaining = NullNum
    /\ sessionExpiresAt = NullNum
    /\ ~hasActiveSession
    /\ ~licenseValidated
    /\ paidSnpList = NULL

\* C1: when checkLicense fails with a network error (fetch throws or the
\* status is not ok) for the key that is stored as the current session key,
\* the stored key and its session state (sessionsRemaining, sessionExpiresAt,
\* hasActiveSession, validated flag, cached premium catalog) are kept.
C1_NetworkErrorKeepsSession ==
    [][\A r \in BagToSet(inflight), t \in Transports \ {"ok"} :
         ( /\ r.api = "check-license"
           /\ r.key = storedToken
           /\ \/ BackgroundCheckResponse(r, t, NetworkErrorResult)
              \/ TokenValidationResponse(r, t, NetworkErrorResult)
              \/ \E p \in PresetInputs \cup {NULL} :
                    InitUrlResponse(r, t, NetworkErrorResult, p) )
         => UNCHANGED sessionState]_vars

\* C2: the response of the background re-validation started at app start for
\* the key restored from storage is discarded when the stored key is no
\* longer the captured one (cleared or replaced): valid or invalid, it changes
\* none of storedToken, sessionsRemaining, sessionExpiresAt, hasActiveSession,
\* licenseValidated and the cached catalog.
C2_StaleBackgroundResponseDiscarded ==
    [][\A r \in BagToSet(inflight) :
         ( /\ r.origin = "init_restore"
           /\ storedToken # r.key
           /\ inflight' = Remove(inflight, r) )
         => UNCHANGED sessionState]_vars

\* C2 witness: the background check of the restored key is still in flight and
\* the user has replaced the stored key by another validated one.
C2_Witness ==
    \E r \in BagToSet(inflight) :
        /\ r.origin = "init_restore"
        /\ storedToken \notin {NULL, r.key}
        /\ licenseValidated

\* C3: every license response is applied to the session state only if the key
\* its request was issued for is still the current key on arrival: the reply
\* to a key entry that a later entry of another key has superseded, and the
\* reply to a consuming fetch whose key is no longer the stored one, leave the
\* session state unchanged.
C3_StaleResponsesDiscarded ==
    [][\A r \in BagToSet(inflight) :
         ( /\ inflight' = Remove(inflight, r)
           /\ \/ r.origin = "handleTokenValidation" /\ r.stale
              \/ r.api = "validate-token" /\ r.key # storedToken )
         => UNCHANGED sessionState]_vars

\* C4: a consuming validate call made less than 24 hours after the key's last
\* session start returns the catalog with sessionsRemaining unchanged and the
\* same window; one made 24 hours or more after it, or for a key that never
\* started a session, decrements sessionsRemaining by exactly one and starts a
\* window that expires 24 hours after the call. Hence the calls inside one
\* window decrement the counter once.
C4_ConsumingCallOncePerWindow ==
    [][/\ srvSessionsRemaining' # srvSessionsRemaining =>
            /\ srvSessionsRemaining' = srvSessionsRemaining - 1
            /\ \/ srvLastSessionStartedAt = NullNum
               \/ now - srvLastSessionStartedAt >= SESSION_WINDOW
       /\ ServiceValidateSession =>
         IF srvLastSessionStartedAt # NullNum
            /\ now - srvLastSessionStartedAt < SESSION_WINDOW
         THEN /\ srvSessionsRemaining' = srvSessionsRemaining
              /\ srvLastSessionStartedAt' = srvLastSessionStartedAt
              /\ srvReply'.valid
              /\ srvReply'.encryptedSnpList = "base64"
              /\ srvReply'.sessionsRemaining = srvSessionsRemaining
              /\ srvReply'.sessionExpiresAt = srvLastSessionStartedAt + SESSION_WINDOW
         ELSE \/ srvSessionsRemaining = 0
              \/ /\ srvSessionsRemaining' = srvSessionsRemaining - 1
                 /\ srvLastSessionStartedAt' = now
                 /\ srvReply'.valid
                 /\ srvReply'.encryptedSnpList = "base64"
                 /\ srvReply'.sessionsRemaining = srvSessionsRemaining - 1
                 /\ srvReply'.sessionExpiresAt = now + SESSION_WINDOW]_vars

\* C4 witness: a consuming call answered 23 hours into the second window of a
\* key: two of its three sessions are used, one per window.
C4_Witness ==
    /\ srvReply.api = "validate-session"
    /\ srvReply.valid
    /\ srvReply.at = now
    /\ now - srvLastSessionStartedAt = SESSION_WINDOW - 1
    /\ srvLastSessionStartedAt >= SESSION_WINDOW
    /\ srvSessionsRemaining = SESSIONS_PER_LICENSE - 2
    /\ srvReply.sessionsRemaining = srvSessionsRemaining

\* performExtraction gets past its guards with a license-requiring preset
\* (main.ts:874-885).
LicensedExtraction ==
    /\ currentParseResult # NULL
    /\ snpList # NULL
    /\ PRESET_REQUIRES_TOKEN[currentPreset]
    /\ storedToken # NULL
    /\ licenseValidated

\* C5: performExtraction for a license-requiring preset issues the consuming
\* call if and only if no premium catalog obtained for the currently stored
\* key is cached; a catalog cached under another key is never used in place
\* of a fetch for the current key.
C5_FetchIffNoCatalogForCurrentKey ==
    [][(performExtraction /\ LicensedExtraction) =>
         ( (inflight' = Add(inflight, validateToken("performExtraction", storedToken)))
           <=> (paidSnpList # PremiumCatalog(storedToken)) )]_vars

\* C6: restoring a stored key at page load, validating a key from the URL or
\* the input field and changing the preset only use the non-consuming check;
\* a consuming call is issued only by an extraction with a license-requiring
\* preset, for the stored validated key.
C6_ConsumingCallOnlyFromExtraction ==
    [][\A r \in BagToSet(inflight') :
         (r.api = "validate-token" /\ CopiesIn(r, inflight') > CopiesIn(r, inflight))
         => ( /\ performExtraction
              /\ LicensedExtraction
              /\ r = validateToken("performExtraction", storedToken) )]_vars

\* C6 witness: the consuming call of an extraction is in flight next to the
\* non-consuming check of a key entry.
C6_Witness ==
    /\ LicensedExtraction
    /\ \E r \in BagToSet(inflight) :
          r.api = "validate-token" /\ r.origin = "performExtraction"
    /\ \E r \in BagToSet(inflight) :
          r.api = "check-license" /\ r.origin = "handleTokenValidation"

\* C7: a license error other than a network error (the service reports the
\* current key as invalid or exhausted), on the non-consuming check or on the
\* consuming fetch, clears the session entirely: stored key, sessionsRemaining,
\* sessionExpiresAt, hasActiveSession, validated flag and cached catalog.
C7_LicenseErrorClearsSession ==
    [][\A r \in BagToSet(inflight), e \in {"invalid_token", "exhausted"} :
         ( /\ r.key = storedToken
           /\ \/ \E b \in CheckBodies :
                    /\ b.error = e
                    /\ \/ BackgroundCheckResponse(r, "ok", b)
                       \/ TokenValidationResponse(r, "ok", b)
              \/ \E b \in ValidateBodies :
                    b.error = e /\ FetchResponse(r, "ok", b) )
         => SessionCleared']_vars

\* The fetch branch of performExtraction is open (main.ts:874-889).
CanFetch == LicensedExtraction /\ NeedsFetch

\* C8: a transport failure of the consuming fetch (fetch throws or the status
\* is not ok) never marks the license invalid: stored key, validated flag and
\* the rest of the session are unchanged, the failure is shown as the
\* transient network error, and an extraction that could fetch before can
\* fetch again with the same key.
C8_FetchTransportFailureKeepsLicense ==
    [][\A r \in BagToSet(inflight), t \in Transports \ {"ok"} :
         (r.api = "validate-token" /\ FetchResponse(r, t, NoBody))
         => ( /\ UNCHANGED sessionState
              /\ UNCHANGED localStorageToken
              /\ errorText' = MsgNetwork
              /\ (CanFetch => CanFetch') )]_vars

\* C8 witness: the network error is shown after a failed fetch, the key is
\* still stored and validated, and the extraction can fetch again.
C8_Witness ==
    /\ errorText = MsgNetwork
    /\ CanFetch
    /\ ~hasActiveSession
    /\ inflight = EmptyBag
    /\ decrypting = EmptyBag

\* C9: a failure to decrypt the premium catalog or to validate its schema is
\* reported as its own error kind, distinct from the report of a network
\* failure and from the report of an invalid or exhausted license.
C9_DecryptFailureDistinctError ==
    [][/\ \A d \in BagToSet(decrypting), plaintext \in Plaintexts :
            (DecryptDone(d, plaintext) /\ ~DecryptSucceeds(d, plaintext))
            => errorText' \notin {MsgNetwork, MsgExhausted, MsgFailedLoad}
       /\ \A r \in BagToSet(inflight), b \in ValidateBodies :
            (b.valid /\ b.encryptedSnpList = "bad_base64" /\ FetchResponse(r, "ok", b))
            => errorText' \notin {MsgNetwork, MsgExhausted, MsgFailedLoad}]_vars

\* C10: in every reachable state, if no license key is stored then no
\* decrypted premium catalog is cached.
C10_NoKeyNoCatalog ==
    storedToken = NULL => paidSnpList = NULL

\* C11: the session is cleared entirely: in every reachable state in which no
\* license key is stored, sessionsRemaining and sessionExpiresAt are null and
\* hasActiveSession and licenseValidated are false, also when a check or a
\* consuming fetch was in flight at the clear and is answered afterwards.
C11_NoKeyNoSession ==
    storedToken = NULL =>
        /\ sessionsRemaining = NullNum
        /\ sessionExpiresAt = NullNum
        /\ ~hasActiveSession
        /\ ~licenseValidated

\* C12: starting a new file read supersedes any read still in flight: for any
\* sequence of handleFile calls and read completions, a completion (load or
\* error) of a reader other than the most recently created one changes
\* neither the current parse result nor the error shown, and a parse result
\* that is applied is that of the most recently started read.
C12_SupersededReadIgnored ==
    [][/\ \A reader \in 1..Len(readers) :
            ( /\ reader # Len(readers)
              /\ readers[reader].state = "loading"
              /\ Len(readers') = Len(readers)
              /\ readers'[reader].state # "loading" )
            => UNCHANGED <<currentParseResult, currentResult, errorText>>
       /\ (currentParseResult' # currentParseResult /\ currentParseResult' # NULL)
            => /\ readers # << >>
               /\ Len(readers') = Len(readers)
               /\ currentParseResult' = ParseGenomeFile(readers[Len(readers)].file)]_vars

\* C12 witness: the load of the first file was delivered after the second read
\* had started and was ignored; the parse result is that of the second file.
C12_Witness ==
    /\ Len(readers) = 2
    /\ readers[1].state = "ignored"
    /\ readers[1].file = "genome-a.txt"
    /\ readers[2].state = "loaded"
    /\ readers[2].file = "genome-b.txt"
    /\ currentParseResult = ParseGenomeFile("genome-b.txt")

\* C13: a cached premium catalog is reused only while its session window is
\* open: once the current time is past sessionExpiresAt, the next extraction
\* with a license-requiring preset does not use the cached catalog but issues
\* the consuming call again.
C13_ExpiredSessionRefetches ==
    [][( /\ performExtraction
         /\ LicensedExtraction
         /\ paidSnpList # NULL
         /\ sessionExpiresAt # NullNum
         /\ now > sessionExpiresAt )
       => /\ inflight' = Add(inflight, validateToken("performExtraction", storedToken))
          /\ UNCHANGED currentResult]_vars

\* C14: the premium catalog is gated behind a validated license: an extraction
\* with a license-requiring preset issues a consuming call or produces a
\* result only if, when it is requested, a key is stored and validated; with
\* no key stored, or with the stored key still pending validation, it reports
\* an error, issues no request and produces no result.
C14_PremiumGatedByValidatedLicense ==
    [][( /\ performExtraction
         /\ currentParseResult # NULL
         /\ snpList # NULL
         /\ PRESET_REQUIRES_TOKEN[currentPreset] )
       => IF storedToken # NULL /\ licenseValidated
          THEN \/ /\ inflight' = Add(inflight, validateToken("performExtraction", storedToken))
                  /\ UNCHANGED currentResult
               \/ /\ paidSnpList # NULL
                  /\ currentResult' = paidSnpList
                  /\ UNCHANGED inflight
          ELSE /\ errorText' = MsgNeedLicense
               /\ UNCHANGED <<inflight, decrypting, currentResult, paidSnpList>>]_vars

\* C14 witness: the key restored from storage is still pending validation and
\* the extraction with the full preset was refused.
C14_Witness ==
    /\ errorText = MsgNeedLicense
    /\ storedToken # NULL
    /\ ~licenseValidated
    /\ PRESET_REQUIRES_TOKEN[currentPreset]
    /\ currentParseResult # NULL
    /\ currentResult = NULL
    /\ \E r \in BagToSet(inflight) : r.origin = "init_restore"
    /\ \A r \in BagToSet(inflight) : r.api # "validate-token"

(***************************************************************************)
(* Extractor properties                                                    *)
(***************************************************************************)
\* Two rsids that are equal up to letter case.
RsidNumber(rsid) ==
    CASE rsid \in {"rs1", "RS1"} -> 1
      [] rsid \in {"rs2", "RS2"} -> 2
      [] OTHER -> 3
SameRsid(a, b) == RsidNumber(a) = RsidNumber(b)

\* The rows of the genome file that carry the rsid of a catalog entry.
RowsOf(snpEntry) ==
    { i \in DOMAIN parseVariants : SameRsid(parseVariants[i].rsid, snpEntry.rsid) }
LastRowOf(snpEntry) == CHOOSE i \in RowsOf(snpEntry) : \A j \in RowsOf(snpEntry) : j <= i

\* The catalog entries that pass the category filter of the latest call.
Passing ==
    { i \in DOMAIN snpVariants :
        extraction.categoryFilter.given
            => snpVariants[i].category \in extraction.categoryFilter.categories }

Extracted == extraction.op = "extractVariants"
MatchedOf(snpEntry) ==
    { i \in DOMAIN extraction.result.variants :
        extraction.result.variants[i].rsid = snpEntry.rsid }
MissingOf(snpEntry) ==
    { i \in DOMAIN extraction.result.missing :
        extraction.result.missing[i].rsid = snpEntry.rsid }
ReportedNoCall(snpEntry) ==
    /\ MatchedOf(snpEntry) # {}
    /\ \A i \in MatchedOf(snpEntry) :
          /\ extraction.result.variants[i].status = "no-call"
          /\ extraction.result.variants[i].genotype = "--"
    /\ MissingOf(snpEntry) = {}

\* C15 as stated: every catalog entry that passes the category filter and
\* whose rsid is in the genome file with genotype "--" is in the matched list
\* with status no-call and genotype "--", never found, never unmatched.
C15_AnyNoCallRowIsNoCall ==
    Extracted =>
        \A i \in Passing :
            (\E r \in RowsOf(snpVariants[i]) : parseVariants[r].genotype = "--")
                => ReportedNoCall(snpVariants[i])

\* C15 amended: every catalog entry that passes the category filter and whose
\* last row in the genome file (rsid compared without regard to case) has
\* genotype "--" is in the matched list with status no-call and genotype
\* "--", never found, never unmatched.
C15_LastNoCallRowIsNoCall ==
    Extracted =>
        \A i \in Passing :
            (/\ RowsOf(snpVariants[i]) # {}
             /\ parseVariants[LastRowOf(snpVariants[i])].genotype = "--")
                => ReportedNoCall(snpVariants[i])

\* An entry with a called row followed by a no-call row is reported no-call.
C15_Witness ==
    /\ Extracted
    /\ \E i \in Passing :
          /\ Cardinality(RowsOf(snpVariants[i])) = 2
          /\ parseVariants[1].genotype = "CT"
          /\ parseVariants[2].genotype = "--"
          /\ ReportedNoCall(snpVariants[i])

\* The catalog entries whose rsid is on some row of the genome file.
Present == { i \in DOMAIN snpVariants : RowsOf(snpVariants[i]) # {} }

\* C16: for a catalog of M entries of which exactly K are present in the
\* genome file, none of them a no-call, extractVariants without a category
\* filter returns found = K, missing = M - K, noCall = 0 and total = M.
C16_SummaryCounts ==
    (/\ Extracted
     /\ ~extraction.categoryFilter.given
     /\ \A i \in Present : parseVariants[LastRowOf(snpVariants[i])].genotype # "--")
        => extraction.result.summary =
              [found |-> Cardinality(Present),
               missing |-> Len(snpVariants) - Cardinality(Present),
               noCall |-> 0,
               total |-> Len(snpVariants)]

\* Two of three catalog entries are in the file, both called.
C16_Witness ==
    /\ Extracted
    /\ ~extraction.categoryFilter.given
    /\ Len(snpVariants) = 3
    /\ Cardinality(Present) = 2
    /\ \A r \in DOMAIN parseVariants : parseVariants[r].genotype # "--"
    /\ extraction.result.summary = [found |-> 2, missing |-> 1, noCall |-> 0, total |-> 3]

\* found + noCall of an extraction result.
MatchedCount(result) == result.summary.found + result.summary.noCall

\* The category filters that are strict supersets of the latest call's filter.
StrictSupersets ==
    { f \in CategoryFilters :
        /\ f.given
        /\ extraction.categoryFilter.categories \subseteq f.categories
        /\ extraction.categoryFilter.categories # f.categories }

\* C17: for a fixed genome file and catalog, a category filter that is a
\* strict superset of another gives extractVariants a matched count
\* (found + noCall) at least as large, and estimateMatches a total at least
\* as large.
C17_LargerFilterNeverFewerMatches ==
    /\ (Extracted /\ extraction.categoryFilter.given)
          => \A f \in StrictSupersets :
                MatchedCount(extractVariants(parseVariants, snpVariants, f, Undefined))
                    >= MatchedCount(extraction.result)
    /\ (extraction.op = "estimateMatches" /\ extraction.categoryFilter.given)
          => \A f \in StrictSupersets :
                estimateMatches(parseVariants, snpVariants, f, Undefined).total
                    >= extraction.estimate.total

\* One category matches one entry; with every category two entries match.
C17_Witness ==
    /\ Extracted
    /\ extraction.categoryFilter = [given |-> TRUE, categories |-> {"methylation"}]
    /\ MatchedCount(extraction.result) = 1
    /\ MatchedCount(extractVariants(parseVariants, snpVariants,
                                    [given |-> TRUE, categories |-> ALL_CATEGORIES],
                                    Undefined)) = 2

\* The genotype of a row, reported as extractVariants reports a genotype.
ReportedAs(snpEntry, genomeVariant) ==
    /\ MatchedOf(snpEntry) # {}
    /\ \A i \in MatchedOf(snpEntry) :
          /\ extraction.result.variants[i].genotype = genomeVariant.genotype
          /\ extraction.result.variants[i].status =
                IF genomeVariant.genotype = "--" THEN "no-call" ELSE "found"

\* C18: when an rsid (compared without regard to case) is on more than one
\* row of the genome file, the genotype and status extractVariants reports
\* for the catalog entry are those of the last such row.
C18_LastOccurrenceWins ==
    Extracted =>
        \A i \in Passing :
            Cardinality(RowsOf(snpVariants[i])) > 1
                => ReportedAs(snpVariants[i], parseVariants[LastRowOf(snpVariants[i])])

\* Rows (RS1, --) then (rs1, CT): the entry rs1 is reported found with CT.
C18_Witness ==
    /\ Extracted
    /\ parseVariants = <<[rsid |-> "RS1", genotype |-> "--"],
                         [rsid |-> "rs1", genotype |-> "CT"]>>
    /\ \E i \in DOMAIN extraction.result.variants :
          /\ extraction.result.variants[i].rsid = "rs1"
          /\ extraction.result.variants[i].genotype = "CT"
          /\ extraction.result.variants[i].status = "found"

\* C19: matching is case-insensitive on the rsid: a catalog entry (passing the
\* category filter) is matched whenever the file has a row whose rsid equals
\* the entry's rsid up to letter case, and the matched variant carries the
\* catalog's spelling of the rsid.
C19_CaseInsensitiveMatch ==
    Extracted =>
        /\ \A i \in Passing :
              IF RowsOf(snpVariants[i]) # {}
              THEN MatchedOf(snpVariants[i]) # {} /\ MissingOf(snpVariants[i]) = {}
              ELSE MatchedOf(snpVariants[i]) = {} /\ MissingOf(snpVariants[i]) # {}
        /\ \A k \in DOMAIN extraction.result.variants :
              \E i \in Passing : extraction.result.variants[k].rsid = snpVariants[i].rsid

\* The file spells RS1 and rs2, the catalog rs1 and RS2: both are matched
\* under the catalog's spelling.
C19_Witness ==
    /\ Extracted
    /\ { parseVariants[r].rsid : r \in DOMAIN parseVariants } = {"RS1", "rs2"}
    /\ { extraction.result.variants[k].rsid : k \in DOMAIN extraction.result.variants }
          = {"rs1", "RS2"}

\* The rsids of a list of variants, in order.
Rsids(list) == [k \in DOMAIN list |-> list[k].rsid]

\* The filtered catalog of the latest call, in catalog order.
FilteredCatalog ==
    SelectSeq(snpVariants,
              LAMBDA e : extraction.categoryFilter.given
                            => e.category \in extraction.categoryFilter.categories)

\* The orders in which the rows of the genome file can stand.
RowOrders ==
    LET n == Len(parseVariants)
    IN  { [k \in 1..n |-> parseVariants[p[k]]] : p \in { q \in [1..n -> 1..n] : Injective(q) } }

\* The rsids an output lists as variants and as missing.
ListedVariants == Rsids(extraction.output.variants)
ListedMissing ==
    IF extraction.format = "detailed" THEN Rsids(extraction.output.missing)
    ELSE extraction.output.missing

\* C20: the matched and the unmatched list of an extraction result are each
\* in the order of the filtered catalog, whatever the order of the rows of the
\* genome file, and every output format lists the variants and the unmatched
\* rsids in that order.
C20_CatalogOrder ==
    /\ Extracted =>
          /\ Rsids(extraction.result.variants)
                = Rsids(SelectSeq(FilteredCatalog, LAMBDA e : RowsOf(e) # {}))
          /\ Rsids(extraction.result.missing)
                = Rsids(SelectSeq(FilteredCatalog, LAMBDA e : RowsOf(e) = {}))
          /\ \A rows \in RowOrders :
                LET other == extractVariants(rows, snpVariants,
                                             extraction.categoryFilter, Undefined)
                IN  /\ Rsids(other.variants) = Rsids(extraction.result.variants)
                    /\ Rsids(other.missing) = Rsids(extraction.result.missing)
    /\ extraction.op = "toYAML" =>
          /\ ListedVariants = Rsids(extraction.result.variants)
          /\ ListedMissing = Rsids(extraction.result.missing)
          /\ ListedVariants = Rsids(SelectSeq(FilteredCatalog, LAMBDA e : RowsOf(e) # {}))
          /\ ListedMissing = Rsids(SelectSeq(FilteredCatalog, LAMBDA e : RowsOf(e) = {}))

\* The file has rs1 before rs2, the catalog RS2 before rs1: the minimal
\* output lists RS2, then rs1, and rs3 as missing.
C20_Witness ==
    /\ extraction.op = "toYAML"
    /\ extraction.format = "minimal"
    /\ Rsids(parseVariants) = <<"rs1", "rs2">>
    /\ Rsids(snpVariants) = <<"RS2", "rs3", "rs1">>
    /\ ListedVariants = <<"RS2", "rs1">>
    /\ ListedMissing = <<"rs3">>

(***************************************************************************)
(* Output properties                                                       *)
(***************************************************************************)
\* The date an output of the given format shows for a result.
ShownDate(result, format) ==
    IF format = "detailed" THEN result.metadata.date
    ELSE result.metadata.date \div HoursPerDay

\* C21: serialization is deterministic: for every extraction result and
\* format, a call of toYAML returns what the call before it returned for
\* that result and format, whatever the time; and the date in the output is
\* the one fixed when the result was created, not the time of the call.
C21_SerializationDeterministic ==
    [][\A format \in OutputFormats :
          CallToYAML(format) =>
              /\ extraction'.output.date = ShownDate(extraction.result, format)
              /\ (extraction.op = "toYAML" /\ extraction.format = format)
                    => extraction'.output = extraction.output
              /\ extraction'.output = toYAML(extraction'.result, format)]_vars

\* A result created on day 0 is written out two days later with its own date.
C21_Witness ==
    /\ extraction.op = "toYAML"
    /\ extraction.format = "compact"
    /\ Len(extraction.result.variants) > 0
    /\ extraction.result.metadata.date = 0
    /\ now = 2 * HoursPerDay
    /\ extraction.output.date = 0

\* The lengths of the three encodings of the latest result.
LengthOf(format) == toYAML(extraction.result, format).chars

\* C22: for every extraction result with at least one matched variant,
\* length(minimal) < length(compact) < length(detailed).
C22_LengthsOrdered ==
    (extraction.op = "toYAML" /\ Len(extraction.result.variants) > 0)
        => /\ extraction.output.chars = LengthOf(extraction.format)
           /\ LengthOf("minimal") < LengthOf("compact")
           /\ LengthOf("compact") < LengthOf("detailed")

\* A result with a matched and a missing variant, written out as compact.
C22_Witness ==
    /\ extraction.op = "toYAML"
    /\ extraction.format = "compact"
    /\ Len(extraction.result.variants) > 0
    /\ Len(extraction.result.missing) > 0
    /\ LengthOf("minimal") < extraction.output.chars
    /\ extraction.output.chars < LengthOf("detailed")

\* The name under which a format writes the unmatched entries.
MissingSectionOf(format) ==
    CASE format = "detailed" -> "missing_variants"
      [] format = "compact" -> "missing"
      [] format = "minimal" -> "# missing: "

\* C23: in each of the three formats the unmatched-entries section is
\* present if and only if the result's unmatched list is non-empty.
C23_MissingSectionIffNonEmpty ==
    extraction.op = "toYAML" =>
        /\ MissingSectionOf(extraction.format) \in extraction.output.sections
              <=> Len(extraction.result.missing) > 0
        /\ Len(extraction.result.missing) = 0 => extraction.output.missing = << >>

\* The minimal output of a result with one matched and one missing entry
\* has the missing line.
C23_Witness ==
    /\ extraction.op = "toYAML"
    /\ extraction.format = "minimal"
    /\ Len(extraction.result.variants) = 1
    /\ Len(extraction.result.missing) = 1
    /\ "# missing: " \in extraction.output.sections

\* C24: the lookup index is built once per parsed genome file and reused: an
\* estimate call made after an earlier call on the same file does not build
\* the index from the variant list again.
C24_EstimateReusesIndex ==
    [][(extraction.op # "none" /\ extraction'.op = "estimateMatches")
          => ~extraction'.indexBuilt]_vars

(***************************************************************************)
(* Properties of the genome file parser                                    *)
(***************************************************************************)
\* The strings of the model that contain an uppercase letter.
HasUpperCase(s) ==
    s \in {"RS1", "RS2", "RS3", "rsAb7", "I5", "VG1", "RSID", "X", "Y", "M", "MT",
           "chrX", "CHRX"}

\* The identifier starts with `rs` or with `i`.
HasRsidPrefix(s) == startsWith(s, "rs") \/ startsWith(s, "i")

\* C25: every variant parseDataLine emits has an rsid without an uppercase
\* letter that starts with `rs` or `i`, and a data line whose identifier does
\* not start with `rs` or `i` emits no variant.
C25_EmittedRsidLowercasePrefixed ==
    parsing.op = "parseDataLine" =>
        /\ parsing.variant.emitted =>
              /\ ~HasUpperCase(parsing.variant.rsid)
              /\ HasRsidPrefix(parsing.variant.rsid)
        /\ ~HasRsidPrefix(content[1][1]) => ~parsing.variant.emitted

\* A line whose identifier has uppercase letters after the prefix was emitted
\* in lowercase.
C25_Witness ==
    /\ parsing.op = "parseDataLine"
    /\ content[1][1] = "rsAb7"
    /\ parsing.variant.emitted
    /\ parsing.variant.rsid = "rsab7"

\* The canonical chromosome names: 1..22, X, Y, MT.
CanonicalChromosomes == Autosomes \cup {"X", "Y", "MT"}

\* The name the numeric codes of AncestryDNA stand for.
NumericCode(chr) ==
    CASE chr = "23" -> "X"
      [] chr = "24" -> "Y"
      [] chr = "25" -> "MT"
      [] chr = "26" -> "MT"

\* C26: the AncestryDNA line parser turns the chromosome codes 23, 24, 25 and
\* 26 into X, Y, MT and MT, and every chromosome it emits is one of 1..22, X,
\* Y, MT.
C26_ChromosomeNormalized ==
    (parsing.op = "parseDataLine" /\ parsing.variant.emitted) =>
        /\ parsing.variant.chromosome \in CanonicalChromosomes
        /\ content[1][2] \in {"23", "24", "25", "26"} =>
              parsing.variant.chromosome = NumericCode(content[1][2])

\* A line with the chromosome code 26 was emitted as MT.
C26_Witness ==
    /\ parsing.op = "parseDataLine"
    /\ content[1][2] = "26"
    /\ parsing.variant.emitted
    /\ parsing.variant.chromosome = "MT"

\* The letters of a genotype, in their order.
GenotypeLetters(g) ==
    CASE g = "AA" -> <<"A", "A">>
      [] g = "AC" -> <<"A", "C">>
      [] g = "AG" -> <<"A", "G">>
      [] g = "AT" -> <<"A", "T">>
      [] g = "CA" -> <<"C", "A">>
      [] g = "CC" -> <<"C", "C">>
      [] g = "CG" -> <<"C", "G">>
      [] g = "CT" -> <<"C", "T">>
      [] g = "GA" -> <<"G", "A">>
      [] g = "GC" -> <<"G", "C">>
      [] g = "GG" -> <<"G", "G">>
      [] g = "GT" -> <<"G", "T">>
      [] g = "TA" -> <<"T", "A">>
      [] g = "TC" -> <<"T", "C">>
      [] g = "TG" -> <<"T", "G">>
      [] g = "TT" -> <<"T", "T">>
      [] g = "DD" -> <<"D", "D">>
      [] g = "DI" -> <<"D", "I">>
      [] g = "ID" -> <<"I", "D">>
      [] g = "II" -> <<"I", "I">>
      [] OTHER -> << >>

\* The letter an allele column holds, without surrounding blanks and in
\* uppercase.
AlleleLetter(column) ==
    CASE column = "c" -> "C"
      [] column = "G " -> "G"
      [] OTHER -> column

\* The allele column holds the no-call mark `0` or `-`.
IsZeroOrDash(column) == column \in {"0", "-"}

\* The line has five columns, an accepted identifier, a valid chromosome, a
\* positive position and two non-empty allele columns.
OtherwiseWellFormed(line) ==
    /\ Len(line) >= 5
    /\ line[1] # "" /\ HasRsidPrefix(line[1])
    /\ line[2] # "" /\ isValidChromosome(line[2])
    /\ ~parseInt(line[3]).nan /\ parseInt(line[3]).value > 0
    /\ line[4] # "" /\ line[5] # ""

DataLineNumbers(c) ==
    { k \in 1..Len(c) :
        /\ TrimLine(c[k]) # << >>
        /\ ~startsWith(TrimLine(c[k])[1], "#")
        /\ ~IsHeaderLine(TrimLine(c[k])) }

\* The warnings recorded for line k.
WarningsFor(k) ==
    { i \in 1..Len(parsing.outcome.warnings) : parsing.outcome.warnings[i].line = k }

\* The data lines of the content for which no warning is recorded.
LinesNotWarned(c) == { k \in DataLineNumbers(c) : WarningsFor(k) = {} }

\* C28: in parseAncestry every line that is not blank, not a `#` comment and
\* not the column-header line either emits exactly one variant or is skipped
\* and recorded as exactly one warning: the lines without a warning are the
\* ones whose variants were emitted, one each, and no line has two warnings;
\* this holds for the lines after a malformed line as well.
C28_EveryDataLineVariantOrWarning ==
    parsing.op = "parseAncestry" =>
        /\ \A k \in DataLineNumbers(content) : Cardinality(WarningsFor(k)) <= 1
        /\ \A i \in 1..Len(parsing.outcome.warnings) :
              parsing.outcome.warnings[i].line \in DataLineNumbers(content)
        /\ \A k \in LinesNotWarned(content) :
              parseDataLine(TrimLine(content[k])).emitted
        /\ Cardinality(LinesNotWarned(content)) =
              Len(parsing.outcome.variants)

\* The data lines of the content from which the parser of the detected format
\* emits a variant.
ValidLines(c, format) ==
    { k \in DataLineNumbers(c) :
        IF format = "ancestry" THEN parseDataLine(TrimLine(c[k])).emitted
        ELSE IF format = "unknown" THEN FALSE
        ELSE parse23andMeLine(TrimLine(c[k])).emitted }

\* C29: the preview of a file that yields no valid variant ends in a
\* ParseError and no parse result (`no-valid-variants` when a vendor parser
\* scanned the file), the error is shown, and the current parse result of the
\* application stays the one it was.
C29_ZeroVariantsFatal ==
    [][(parsing'.op = "parseAndShowPreview"
          /\ ValidLines(content', parsing'.format) = {}) =>
            /\ parsing'.outcome.kind = "error"
            /\ parsing'.outcome.variants = << >>
            /\ parsing'.format # "unknown" =>
                  parsing'.outcome.error = "no-valid-variants"
            /\ errorText' = MsgParse
            /\ UNCHANGED <<currentParseResult, parseVariants>>]_vars

\* A file whose lines all failed was previewed after a file that parsed: the
\* earlier result is still the current one.
C29_Witness ==
    /\ parsing.op = "parseAndShowPreview"
    /\ parsing.format = "ancestry"
    /\ parsing.outcome.kind = "error"
    /\ parsing.outcome.error = "no-valid-variants"
    /\ Len(parsing.outcome.warnings) > 0
    /\ currentParseResult = "parsed"
    /\ Len(parseVariants) > 0

\* The texts that identify a vendor.
VendorSignatures == {"23andMe", "23andme-header", "AncestryDNA", "ancestry-header"}

\* A vendor signature lies within the first 2000 characters of the content.
SignatureInFirstCharacters(c) ==
    \E k \in 1..Len(c) :
        \E o \in Occurrences(c[k]) :
            o.text \in VendorSignatures /\ Offset(c, k) + o.end <= HeaderWindow

\* C30: detectFormat returns `unknown` exactly when the first 2000 characters
\* of the file hold no vendor signature, and on such a file parseGenomeFile
\* throws the unsupported-format ParseError without running a vendor parser.
C30_UnknownIffNoSignature ==
    /\ parsing.op \in {"detectFormat", "parseGenomeFile"} =>
          (parsing.format = "unknown" <=> ~SignatureInFirstCharacters(content))
    /\ (parsing.op = "parseGenomeFile" /\ ~SignatureInFirstCharacters(content)) =>
          /\ parsing.outcome.kind = "error"
          /\ parsing.outcome.error = "unsupported-format"
          /\ parsing.outcome.parser = "none"
          /\ parsing.outcome.variants = << >>

\* A file whose only signature comes after the first 2000 characters, followed
\* by a valid data line, was rejected as unsupported.
C30_Witness ==
    /\ parsing.op = "parseGenomeFile"
    /\ Len(content) = 3
    /\ content[1] = <<"#pad2000">>
    /\ content[2] = <<"#AncestryDNA raw data download">>
    /\ parseDataLine(TrimLine(content[3])).emitted
    /\ parsing.format = "unknown"
    /\ parsing.outcome.error = "unsupported-format"

(***************************************************************************)
(* Properties of catalog validation                                        *)
(***************************************************************************)
\* The JSON passes every check of validateSNPList; its count is not looked at.
ValidApartFromCount(data) ==
    /\ data.isObject
    /\ data.version.type = "string"
    /\ data.variants.isArray
    /\ \A i \in 1..Len(data.variants.items) :
          validateSNPEntry(data.variants.items[i]) = "ok"

\* The JSON declares a count that is not the number of its entries.
CountMismatch(data) ==
    data.count.type = "number" /\ data.count.num # Len(data.variants.items)

\* C31: every catalog validateSNPList returns has count = number of entries,
\* whatever count the JSON declared, and a declared count that differs from
\* the number of entries gives a warning and no failure.
C31_CountIsNumberOfEntries ==
    validation.kind # "none" =>
        /\ validation.kind = "result" =>
              /\ validation.count = Len(validation.variants)
              /\ validation.variants = snpListJson.variants.items
        /\ ValidApartFromCount(snpListJson) =>
              /\ validation.kind = "result"
              /\ validation.warned <=> CountMismatch(snpListJson)

\* A JSON with one entry that declares count 2 was returned with count 1 and
\* a warning.
C31_Witness ==
    /\ validation.kind = "result"
    /\ snpListJson.count = Num(2)
    /\ Len(snpListJson.variants.items) = 1
    /\ validation.count = 1
    /\ validation.warned

\* The entry lacks a required field, has one of the wrong type, an rsid that
\* does not start with `rs`, or a category outside the known set.
EntryDefective(entry) ==
    \/ ~entry.isObject
    \/ entry.rsid.type # "string" \/ entry.rsid.str \notin {"rs1", "rs2"}
    \/ entry.gene.type # "string"
    \/ entry.category.type # "string" \/ entry.category.str \notin ALL_CATEGORIES
    \/ entry.annotation.type # "string"
    \/ ~entry.sources.isArray
    \/ \E i \in 1..Len(entry.sources.items) : entry.sources.items[i] # "string"

\* The JSON has no version, no variants array, or a defective entry.
Defective(data) ==
    \/ ~data.isObject
    \/ data.version.type # "string"
    \/ ~data.variants.isArray
    \/ \E i \in 1..Len(data.variants.items) : EntryDefective(data.variants.items[i])

\* C32: when the JSON of the free or of the decrypted premium catalog has no
\* version, no variants array or a defective entry, validateSNPList throws
\* and the step neither loads nor caches a catalog.
C32_DefectiveCatalogNotLoaded ==
    [][\A data \in LoadDocuments :
          Defective(data) =>
              /\ LoadFreeCatalog(data) =>
                    /\ validation'.kind = "error"
                    /\ validation'.variants = << >>
                    /\ snpList' = NULL
                    /\ UNCHANGED paidSnpList
              /\ \A d \in BagToSet(decrypting) :
                    DecryptCatalog(d, data) =>
                        /\ validation'.kind = "error"
                        /\ validation'.variants = << >>
                        /\ UNCHANGED <<paidSnpList, snpList>>]_vars

\* The premium catalog decrypted to a JSON whose entry has an unknown
\* category: validation threw and no premium catalog is cached.
C32_Witness ==
    /\ validation.kind = "error"
    /\ validation.error = "unknown category"
    /\ hasActiveSession
    /\ decrypting = EmptyBag
    /\ snpList # NULL
    /\ paidSnpList = NULL

(***************************************************************************)
(* Properties of the displayed file size                                   *)
(***************************************************************************)
\* The text shows the number of tenths closest to bytes / unit.
ClosestTenth(text, bytes, unit) ==
    LET tenths == 10 * text.whole + text.decimals[1]
        gap == tenths * unit - 10 * bytes
    IN  2 * gap <= unit /\ 2 * gap > -unit

\* C33: calculateSize shows a size below 1024 bytes as an integer number of
\* bytes, a size from 1024 up to but excluding 1048576 bytes as KB with one
\* decimal, and a size of 1048576 bytes or more as MB with one decimal.
C33_SizeByThresholds ==
    fileSize # NoText =>
        /\ outputBytes < 1024 =>
              /\ fileSize.unit = "B"
              /\ fileSize.decimals = << >>
              /\ fileSize.whole = outputBytes
        /\ (outputBytes >= 1024 /\ outputBytes < 1048576) =>
              /\ fileSize.unit = "KB"
              /\ Len(fileSize.decimals) = 1
              /\ ClosestTenth(fileSize, outputBytes, 1024)
        /\ outputBytes >= 1048576 =>
              /\ fileSize.unit = "MB"
              /\ Len(fileSize.decimals) = 1
              /\ ClosestTenth(fileSize, outputBytes, 1048576)

\* An output of exactly 1024 bytes is shown as 1.0 KB.
C33_Witness ==
    /\ outputBytes = 1024
    /\ fileSize = [whole |-> 1, decimals |-> <<0>>, unit |-> "KB"]

(***************************************************************************)
(* Properties of extraction results                                        *)
(***************************************************************************)
\* C34: no step changes an extraction result that exists (its lists,
\* summary, metadata and timestamp, the included categories among them), the
\* parse result or the catalog; an extraction adds a result to those there.
C34_ResultsReadOnly ==
    [][/\ \A k \in DOMAIN results :
             /\ k \in DOMAIN results'
             /\ ResultValue(results[k])' = ResultValue(results[k])
       /\ UNCHANGED <<parseVariants, snpVariants>>]_vars

\* Two results exist, the categories were changed by checkbox after the
\* first was created, and the output was written in another format.
C34_Witness ==
    /\ Len(results) = 2
    /\ results[1].metadata.categoriesIncluded # results[2].metadata.categoriesIncluded
    /\ results[1].variants # results[2].variants
    /\ Len(arrays) > Len(InitialArrays)
    /\ extraction.op = "toYAML"
    /\ selectedFormat = "minimal"

\* C35: the result of extractVariants partitions the filtered catalog: each
\* filtered entry is exactly once in the matched or in the unmatched list and
\* the lists hold nothing else; found + noCall is the length of the matched
\* list, missing the length of the unmatched list, and their sum is total,
\* the number of filtered entries.
C35_ResultPartitionsFilteredCatalog ==
    Extracted =>
        LET result == extraction.result
        IN  /\ \A i \in Passing :
                  Cardinality(MatchedOf(snpVariants[i]))
                      + Cardinality(MissingOf(snpVariants[i])) = 1
            /\ Len(result.variants) + Len(result.missing) = Cardinality(Passing)
            /\ result.summary.found + result.summary.noCall = Len(result.variants)
            /\ result.summary.missing = Len(result.missing)
            /\ result.summary.found + result.summary.noCall + result.summary.missing
                  = result.summary.total
            /\ result.summary.total = Len(FilteredCatalog)

\* A filter lets two of three entries pass, one matched and one not, and the
\* file has another number of rows than there are filtered entries.
C35_Witness ==
    /\ Extracted
    /\ extraction.categoryFilter.given
    /\ Len(snpVariants) = 3
    /\ Len(extraction.result.variants) = 1
    /\ Len(extraction.result.missing) = 1
    /\ extraction.result.summary.total = 2
    /\ Len(parseVariants) = 1

\* The matched variants of a result that are of the category.
MatchedIn(result, category) ==
    { k \in DOMAIN result.variants : result.variants[k].category = category }

\* C36: for the same genome file, catalog and category filter, the total of
\* estimateMatches is found + noCall of extractVariants, and its count of
\* each category is the number of matched variants of that category.
C36_EstimateAgreesWithExtraction ==
    extraction.op = "estimateMatches" =>
        LET result == extractVariants(parseVariants, snpVariants,
                                      extraction.categoryFilter, Undefined)
        IN  /\ extraction.estimate.total
                  = result.summary.found + result.summary.noCall
            /\ \A category \in ALL_CATEGORIES :
                  extraction.estimate.byCategory[category]
                      = Cardinality(MatchedIn(result, category))

\* An estimate with the empty filter over a catalog with an entry that is in
\* the file: nothing is counted.
C36_Witness ==
    /\ extraction.op = "estimateMatches"
    /\ extraction.categoryFilter = [given |-> TRUE, categories |-> {}]
    /\ Present # {}
    /\ extraction.estimate.total = 0

\* C37: the counts the preview shows for the genome file, the catalog and
\* the categories are those of the result extractVariants produces for them:
\* matched = found + noCall, no-call = noCall, missing = missing.
C37_PreviewAgreesWithExtraction ==
    (extraction.op = "updateExtractionPreview" /\ extraction.preview.shown = "counted") =>
        LET result == extractVariants(parseVariants, snpVariants,
                                      extraction.categoryFilter, Undefined)
        IN  /\ extraction.preview.matched = result.summary.found + result.summary.noCall
            /\ extraction.preview.noCall = result.summary.noCall
            /\ extraction.preview.missing = result.summary.missing

(***************************************************************************)
(* Properties of the consuming fetch                                       *)
(***************************************************************************)
\* The step in which a call of fetchPaidSnpList returns false: its reply is a
\* failure or carries a payload that does not decode, or its decryptSnpList
\* call fails.
FetchReturnsFalse ==
    \/ \E r \in BagToSet(inflight), reply \in ValidateReplies :
          FetchResponse(r, reply.transport, reply.body) /\ decrypting' = decrypting
    \/ \E d \in BagToSet(decrypting), plaintext \in Plaintexts :
          DecryptDone(d, plaintext) /\ ~DecryptSucceeds(d, plaintext)

\* C38: a call of fetchPaidSnpList that returns false leaves
\* sessionsRemaining, sessionExpiresAt, hasActiveSession and the cached
\* catalog as they were.
C38_FailedFetchKeepsSession ==
    [][FetchReturnsFalse =>
          UNCHANGED <<sessionsRemaining, sessionExpiresAt, hasActiveSession,
                      paidSnpList>>]_vars

\* C39: a consuming fetch that the service receives while the window opened
\* by an earlier fetch of the key is running (a second performExtraction
\* while the first fetch is in flight) does not decrement the counter, and
\* whatever the number and order of the replies applied, the session of the
\* client for that window is the one a single fetch gives: the counter of the
\* service after one decrement, and the catalog of the key.
C39_OverlappingFetchesChargeOnce ==
    /\ [][\A r \in BagToSet(inflight) :
             (SessionWindowOpen(srvLastSessionStartedAt, now) /\ ServeFetch(r))
                => UNCHANGED <<srvSessionsRemaining, srvLastSessionStartedAt>>]_vars
    /\ []((hasActiveSession
             /\ sessionExpiresAt = srvLastSessionStartedAt + SESSION_WINDOW)
            => /\ sessionsRemaining = srvSessionsRemaining
               /\ paidSnpList \in {NULL, PremiumCatalog(storedToken)})

\* The first of two overlapping fetches has cached the catalog, the reply to
\* the second is on its way, and the service has charged one session.
C39_Witness ==
    /\ BagCardinality(replies) = 1
    /\ \E m \in BagToSet(replies) :
          /\ m.request.api = "validate-token"
          /\ m.body.valid
          /\ m.body.sessionsRemaining = sessionsRemaining
    /\ paidSnpList # NULL
    /\ hasActiveSession
    /\ srvSessionsRemaining = SESSIONS_PER_LICENSE - 1

(***************************************************************************)
(* Properties of the restored key                                          *)
(***************************************************************************)
\* A key restored from storage is stored, not validated, and its check is
\* in flight.
PendingValidation ==
    /\ storedToken # NULL
    /\ ~licenseValidated
    /\ \E r \in BagToSet(inflight) : r.origin = "init_restore" /\ r.key = storedToken

\* C40: when the check of a restored key settles, a pending key does not
\* stay pending: the stored key becomes validated (the restored one, or one
\* that replaced it), or the session is cleared.
C40_PendingValidationIsTransient ==
    PendingValidation ~> (licenseValidated \/ storedToken = NULL)

\* The page has restored a key and registered its listeners, the check is in
\* flight.
C40_Witness ==
    /\ PendingValidation
    /\ ListenersRegistered
    /\ localStorageToken = storedToken

====
